---- MODULE Spec2Model ----
(***************************************************************************)
(* A model of the WBWS signal pipeline of Backtest_platform:               *)
(*   - WBWSTrigger      (src/src/indicators/wbws_trigger.py)               *)
(*   - TimeManager      (src/src/strategies/trade_management/              *)
(*                       time_manager.py)                                  *)
(*   - RSIFilter        (src/src/strategies/filters/rsi_filter.py)         *)
(*   - RiskManager      (src/src/strategies/trade_management/              *)
(*                       risk_manager.py)                                  *)
(*   - run_wbws_strategy (src/scripts/run_wbws_strategy.py)                *)
(*                                                                         *)
(* Conventions.                                                            *)
(*   - A timestamp is a number of minutes since midnight of day 0.         *)
(*   - A DataFrame is a record with its index type, index name, columns    *)
(*     and a sequence of rows; pandas positions i = 0..n-1 are the TLA+    *)
(*     positions i+1 = 1..n.                                               *)
(*   - Prices are integers; the float arithmetic of the source is modelled *)
(*     exactly, as rationals [n, d] (d > 0), NaN being [n |-> 0, d |-> 0]. *)
(*   - Python's None is the empty sequence, a present value x is <<x>>.    *)
(*   - Every component has a specification of its own over the shared      *)
(*     variables; a specification leaves the other components idle.        *)
(***************************************************************************)
EXTENDS Integers, Sequences, FiniteSets, TLC

VARIABLES
    pc,             \* position of the caller / of the pipeline
    data,           \* the inputs the caller holds: DataFrame, configuration, arguments
    call,           \* the last call: [op, raised, ret, log]
    trigger,        \* the WBWSTrigger object
    time_manager,   \* the TimeManager object
    rsi_filter,     \* the RSIFilter object
    risk_manager,   \* the RiskManager object
    run             \* the local variables of run_wbws_strategy

vars == <<pc, data, call, trigger, time_manager, rsi_filter, risk_manager, run>>

(***************************************************************************)
(* Bounds of the model                                                     *)
(***************************************************************************)
MaxPrice == 3       \* prices of the bars given to the trigger: 1..MaxPrice
MaxHL == 3          \* highs and lows given to classify_candle: 1..MaxHL or NaN

(***************************************************************************)
(* General helpers                                                         *)
(***************************************************************************)
None == <<>>
Some(x) == <<x>>
Min(S) == CHOOSE x \in S : \A y \in S : x <= y
Max(S) == CHOOSE x \in S : \A y \in S : x >= y

\* np.nan / a missing cell in a numeric column
NaN == -1
isna(x) == x = NaN

(***************************************************************************)
(* Exact arithmetic for the float columns: a rational is [n, d] with d > 0 *)
(* in lowest terms; RNaN is NaN; +inf never leaves the operator that       *)
(* produces it.                                                            *)
(***************************************************************************)
Abs(x) == IF x < 0 THEN 0 - x ELSE x

RECURSIVE GCD(_, _)
GCD(a, b) == IF b = 0 THEN a ELSE GCD(b, a % b)

RNaN == [n |-> 0, d |-> 0]
RIsNaN(a) == a.d = 0
Rat(n, d) ==
    LET g == GCD(Abs(n), d)
    IN  [n |-> n \div g, d |-> d \div g]
RInt(i) == [n |-> i, d |-> 1]
RAdd(a, b) == Rat(a.n * b.d + b.n * a.d, a.d * b.d)
RSub(a, b) == Rat(a.n * b.d - b.n * a.d, a.d * b.d)
RMul(a, b) == Rat(a.n * b.n, a.d * b.d)
\* a / b for b > 0
RDiv(a, b) == Rat(a.n * b.d, a.d * b.n)
RAbs(a) == [n |-> Abs(a.n), d |-> a.d]
RLt(a, b) == a.n * b.d < b.n * a.d
RLe(a, b) == a.n * b.d <= b.n * a.d
REq(a, b) == a.n * b.d = b.n * a.d

\* Series.ewm(alpha=1/length, adjust=False).mean() of xs, a sequence of
\* rationals: y[1] = x[1], y[t] = (1 - 1/length) * y[t-1] + (1/length) * x[t];
\* ewm_extend carries the column forward from the positions already in ys
RECURSIVE ewm_extend(_, _, _)
ewm_extend(xs, length, ys) ==
    IF Len(ys) >= Len(xs) THEN ys
    ELSE ewm_extend(xs, length,
                    Append(ys, RDiv(RAdd(RMul(RInt(length - 1), ys[Len(ys)]),
                                         xs[Len(ys) + 1]),
                                    RInt(length))))

ewm_mean(xs, length) == IF xs = <<>> THEN <<>> ELSE ewm_extend(xs, length, <<xs[1]>>)

(***************************************************************************)
(* WBWSTrigger: pure calculations                                          *)
(***************************************************************************)
\* return codes of classify_candle
Inside == 1
Outside == 3
DirectionalUp == 2
DirectionalDown == -2

required_cols == {"open", "high", "low", "close", "volume"}

\* _validate_input: TRUE when it returns, FALSE when it raises ValueError
validate_input(df) ==
    /\ df.index_type = "DatetimeIndex"
    /\ required_cols \subseteq df.columns
    /\ \A i \in 1..Len(df.rows) :
          /\ ~isna(df.rows[i].open)
          /\ ~isna(df.rows[i].high)
          /\ ~isna(df.rows[i].low)
          /\ ~isna(df.rows[i].close)

\* resample(htf_period): the label of the bucket a timestamp falls in
htf_bucket(ts, htf_period) == (ts \div htf_period) * htf_period

\* resample_htf with the comparison of line 91 made non-strict: a bucket with
\* close = open counts as bullish
resample_htf_bull_on_equal(rows, htf_period) ==
    LET labels == {htf_bucket(rows[i].timestamp, htf_period) : i \in 1..Len(rows)}
        members(b) == {i \in 1..Len(rows) : htf_bucket(rows[i].timestamp, htf_period) = b}
        first(b) == CHOOSE i \in members(b) :
                        \A j \in members(b) :
                            \/ rows[i].timestamp < rows[j].timestamp
                            \/ (rows[i].timestamp = rows[j].timestamp /\ i <= j)
        last(b) == CHOOSE i \in members(b) :
                        \A j \in members(b) :
                            \/ rows[i].timestamp > rows[j].timestamp
                            \/ (rows[i].timestamp = rows[j].timestamp /\ i >= j)
    IN  [b \in labels |->
            LET o == rows[first(b)].open
                c == rows[last(b)].close
            IN  [open |-> o, close |-> c,
                 htf_bull |-> (~isna(c) /\ ~isna(o) /\ c >= o),
                 htf_bear |-> (~isna(c) /\ ~isna(o) /\ c < o)]]

\* df.resample(htf_period).agg(open: first, close: last).dropna(): one row per
\* bucket that holds at least one bar, with the HTF conditions of lines 88-97
resample_htf(rows, htf_period) ==
    LET labels == {htf_bucket(rows[i].timestamp, htf_period) : i \in 1..Len(rows)}
        members(b) == {i \in 1..Len(rows) : htf_bucket(rows[i].timestamp, htf_period) = b}
        first(b) == CHOOSE i \in members(b) :
                        \A j \in members(b) :
                            \/ rows[i].timestamp < rows[j].timestamp
                            \/ (rows[i].timestamp = rows[j].timestamp /\ i <= j)
        last(b) == CHOOSE i \in members(b) :
                        \A j \in members(b) :
                            \/ rows[i].timestamp > rows[j].timestamp
                            \/ (rows[i].timestamp = rows[j].timestamp /\ i >= j)
    IN  [b \in labels |->
            LET o == rows[first(b)].open
                c == rows[last(b)].close
            IN  [open |-> o, close |-> c,
                 htf_bull |-> (~isna(c) /\ ~isna(o) /\ c > o),
                 htf_bear |-> (~isna(c) /\ ~isna(o) /\ c < o)]]

\* reindex with method='bfill': the flags of the next bucket at or after the bar
htf_ffill_backward(df_htf, ts, col) ==
    LET later == {b \in DOMAIN df_htf : b >= ts}
    IN  IF later = {} THEN FALSE
        ELSE IF col = "htf_bull" THEN df_htf[Min(later)].htf_bull
        ELSE df_htf[Min(later)].htf_bear

\* reindex(df.index, method='ffill').fillna(False) of one HTF column
htf_ffill(df_htf, ts, col) ==
    LET earlier == {b \in DOMAIN df_htf : b <= ts}
    IN  IF earlier = {} THEN FALSE
        ELSE IF col = "htf_bull" THEN df_htf[Max(earlier)].htf_bull
        ELSE df_htf[Max(earlier)].htf_bear

\* prepare_htf_data with the flags of a bar taken from the bars up to that bar
prepare_htf_data_causal(rows, htf_period) ==
    [i \in 1..Len(rows) |->
        LET df_htf == resample_htf(SubSeq(rows, 1, i), htf_period)
        IN  [timestamp |-> rows[i].timestamp,
             open |-> rows[i].open, high |-> rows[i].high,
             low |-> rows[i].low, close |-> rows[i].close,
             htf_bull |-> htf_ffill(df_htf, rows[i].timestamp, "htf_bull"),
             htf_bear |-> htf_ffill(df_htf, rows[i].timestamp, "htf_bear")]]

\* prepare_htf_data: the base rows with htf_bull / htf_bear added
prepare_htf_data(rows, htf_period) ==
    LET df_htf == resample_htf(rows, htf_period)
    IN  [i \in 1..Len(rows) |->
            [timestamp |-> rows[i].timestamp,
             open |-> rows[i].open, high |-> rows[i].high,
             low |-> rows[i].low, close |-> rows[i].close,
             htf_bull |-> htf_ffill(df_htf, rows[i].timestamp, "htf_bull"),
             htf_bear |-> htf_ffill(df_htf, rows[i].timestamp, "htf_bear")]]

\* classify_candle with the Inside test made strict (< and > for <= and >=)
classify_candle_strict_inside(current_bar, previous_bar) ==
    IF \/ isna(previous_bar.high) \/ isna(previous_bar.low)
       \/ isna(current_bar.high) \/ isna(current_bar.low)
    THEN NaN
    ELSE IF current_bar.high < previous_bar.high /\ current_bar.low > previous_bar.low
    THEN Inside
    ELSE IF current_bar.high > previous_bar.high /\ current_bar.low < previous_bar.low
    THEN Outside
    ELSE IF current_bar.high > previous_bar.high /\ current_bar.low >= previous_bar.low
    THEN DirectionalUp
    ELSE IF current_bar.low < previous_bar.low /\ current_bar.high <= previous_bar.high
    THEN DirectionalDown
    ELSE NaN

\* classify_candle; the None it returns is stored by the caller as NaN
classify_candle(current_bar, previous_bar) ==
    IF \/ isna(previous_bar.high) \/ isna(previous_bar.low)
       \/ isna(current_bar.high) \/ isna(current_bar.low)
    THEN NaN
    ELSE IF current_bar.high <= previous_bar.high /\ current_bar.low >= previous_bar.low
    THEN Inside
    ELSE IF current_bar.high > previous_bar.high /\ current_bar.low < previous_bar.low
    THEN Outside
    ELSE IF current_bar.high > previous_bar.high /\ current_bar.low >= previous_bar.low
    THEN DirectionalUp
    ELSE IF current_bar.low < previous_bar.low /\ current_bar.high <= previous_bar.high
    THEN DirectionalDown
    ELSE NaN

\* the candle_type column with the first bar typed by its own direction
candle_types_first_by_body(rows) ==
    [i \in 1..Len(rows) |->
        IF i = 1
        THEN (IF rows[i].close > rows[i].open THEN DirectionalUp
              ELSE IF rows[i].close < rows[i].open THEN DirectionalDown
              ELSE NaN)
        ELSE classify_candle(rows[i], rows[i-1])]

\* the candle_type column (lines 165-174)
candle_types(rows) ==
    [i \in 1..Len(rows) |->
        IF i = 1 THEN NaN ELSE classify_candle(rows[i], rows[i-1])]

\* candle_type.shift(1): NaN at the first position
shift1(col, i) == IF i = 1 THEN NaN ELSE col[i-1]

\* rev_2d_2u (lines 177-182)
rev_2d_2u(ct, i) ==
    /\ ~isna(ct[i])
    /\ ~isna(shift1(ct, i))
    /\ shift1(ct, i) = DirectionalDown
    /\ ct[i] = DirectionalUp

\* rev_2u_2d (lines 184-189)
rev_2u_2d(ct, i) ==
    /\ ~isna(ct[i])
    /\ ~isna(shift1(ct, i))
    /\ shift1(ct, i) = DirectionalUp
    /\ ct[i] = DirectionalDown

\* we_buy without the HTF gate
we_buy_signal_ungated(rev, htf_bull) == rev

\* we_buy / we_sell (lines 192-193)
we_buy_signal(rev, htf_bull) == rev /\ htf_bull
we_sell_signal(rev, htf_bear) == rev /\ htf_bear

\* the table with line 192 copied to line 193 unedited: we_sell computed as we_buy
signals_table_copied_line(rows, htf_period) ==
    LET df == prepare_htf_data(rows, htf_period)
        ct == candle_types(rows)
    IN  [i \in 1..Len(rows) |->
            [timestamp |-> df[i].timestamp,
             open |-> df[i].open, high |-> df[i].high,
             low |-> df[i].low, close |-> df[i].close,
             htf_bull |-> df[i].htf_bull, htf_bear |-> df[i].htf_bear,
             candle_type |-> ct[i],
             rev_2d_2u |-> rev_2d_2u(ct, i),
             rev_2u_2d |-> rev_2u_2d(ct, i),
             we_buy |-> we_buy_signal(rev_2d_2u(ct, i), df[i].htf_bull),
             we_sell |-> we_buy_signal(rev_2d_2u(ct, i), df[i].htf_bull)]]

\* the table calculate_signals builds (lines 157-193)
signals_table(rows, htf_period) ==
    LET df == prepare_htf_data(rows, htf_period)
        ct == candle_types(rows)
    IN  [i \in 1..Len(rows) |->
            [timestamp |-> df[i].timestamp,
             open |-> df[i].open, high |-> df[i].high,
             low |-> df[i].low, close |-> df[i].close,
             htf_bull |-> df[i].htf_bull, htf_bear |-> df[i].htf_bear,
             candle_type |-> ct[i],
             rev_2d_2u |-> rev_2d_2u(ct, i),
             rev_2u_2d |-> rev_2u_2d(ct, i),
             we_buy |-> we_buy_signal(rev_2d_2u(ct, i), df[i].htf_bull),
             we_sell |-> we_sell_signal(rev_2u_2d(ct, i), df[i].htf_bear)]]

\* number of rows of a table with a boolean column set
count_buy(tbl) == Cardinality({i \in 1..Len(tbl) : tbl[i].we_buy})
count_sell(tbl) == Cardinality({i \in 1..Len(tbl) : tbl[i].we_sell})

\* execution_stats (lines 199-219)
execution_stats_of(tbl, htf_period) ==
    [htf_period |-> htf_period,
     total_bars |-> Len(tbl),
     buy |-> count_buy(tbl),
     sell |-> count_sell(tbl),
     total |-> count_buy(tbl) + count_sell(tbl)]

(***************************************************************************)
(* Inputs of the trigger                                                   *)
(***************************************************************************)
\* one-directional bars with prices in 1..K: open at one extreme of the bar,
\* close at the other
BarShapes(K) ==
    {b \in [open : 1..K, high : 1..K, low : 1..K, close : 1..K] :
        /\ b.low <= b.high
        /\ b.open \in {b.low, b.high}
        /\ b.close = (IF b.open = b.low THEN b.high ELSE b.low)}

\* htf_period, in minutes
HtfPeriods == {2}

\* the DatetimeIndex values of the frames given to the trigger: sorted, unique,
\* aligned and not aligned with the HTF buckets, with and without a gap
TriggerIndexes == {<<>>, <<0>>, <<0, 1>>, <<0, 1, 2>>, <<1, 2, 3>>, <<1, 3, 4>>}

\* rows with the given timestamps
RowsAt(shapes, index) ==
    [i \in 1..Len(index) |->
        [timestamp |-> index[i],
         open |-> shapes[i].open, high |-> shapes[i].high,
         low |-> shapes[i].low, close |-> shapes[i].close]]

ShapeSeqs(n, K) == [1..n -> BarShapes(K)]

DataFrame(rows) ==
    [index_type |-> "DatetimeIndex", index_name |-> "timestamp",
     columns |-> required_cols, rows |-> rows]

\* frames _validate_input accepts
IsValidFrame(df) ==
    \E index \in TriggerIndexes : \E s \in ShapeSeqs(Len(index), MaxPrice) :
        df = DataFrame(RowsAt(s, index))

\* four bars in two full buckets; the second bar is DirectionalDown, so the
\* third bar, the first of its bucket, can carry a reversal
IsTwoBucketFrame(df) ==
    \E s \in ShapeSeqs(2, MaxPrice) :
        df = DataFrame(RowsAt(<<[open |-> 2, high |-> 2, low |-> 2, close |-> 2],
                                [open |-> 2, high |-> 2, low |-> 1, close |-> 1]>> \o s,
                              <<0, 1, 2, 3>>))

\* frames with a DatetimeIndex that is not in chronological order
UnsortedIndexes == {<<1, 0>>, <<2, 1, 0>>}

IsUnsortedFrame(df) ==
    \E index \in UnsortedIndexes : \E s \in ShapeSeqs(Len(index), MaxPrice) :
        df = DataFrame(RowsAt(s, index))

\* frames whose DatetimeIndex has no name: reset_index() calls the column
\* 'index', not 'timestamp'
IsUnnamedFrame(df) ==
    \E index \in {<<0, 1>>} : \E s \in ShapeSeqs(Len(index), MaxPrice) :
        df = [DataFrame(RowsAt(s, index)) EXCEPT !.index_name = None]

\* frames _validate_input rejects
InvalidFrames ==
    LET base == DataFrame(RowsAt(<<[open |-> 1, high |-> 2, low |-> 1, close |-> 2]>>, <<0>>))
    IN  {[base EXCEPT !.index_type = "RangeIndex"],
         [base EXCEPT !.columns = @ \ {"volume"}],
         [base EXCEPT !.columns = @ \ {"high"}],
         [base EXCEPT !.rows = <<[@[1] EXCEPT !.close = NaN]>>]}

(***************************************************************************)
(* WBWSTrigger: the object and its methods                                 *)
(***************************************************************************)
\* WBWSTrigger.__init__
WBWSTrigger_init(htf_period) ==
    [htf_period |-> htf_period,
     signals_df |-> None,
     execution_time |-> None,
     execution_stats |-> None]

\* a call record: the operation, whether it raised, what it returned, what it logged
Call(op, raised, ret, log) == [op |-> op, raised |-> raised, ret |-> ret, log |-> log]
Idle == Call("none", FALSE, None, <<>>)

InitTrigger ==
    /\ pc = "trigger"
    /\ \/ IsValidFrame(data)
       \/ IsTwoBucketFrame(data)
       \/ IsUnsortedFrame(data)
       \/ IsUnnamedFrame(data)
       \/ data \in InvalidFrames
    /\ trigger \in {WBWSTrigger_init(p) : p \in HtfPeriods}
    /\ call = Idle
    /\ time_manager = None /\ rsi_filter = None /\ risk_manager = None /\ run = None

\* calculate_signals(df_ohlcv): the table is stored at line 196; the statistics
\* read df['timestamp'] at line 211, a KeyError when the index had another name
CalculateSignals ==
    /\ pc = "trigger"
    /\ IF validate_input(data)
       THEN LET tbl == signals_table(data.rows, trigger.htf_period)
            IN  IF data.index_name = "timestamp"
                THEN /\ trigger' = [trigger EXCEPT
                            !.execution_time = Some("now"),
                            !.signals_df = Some(tbl),
                            !.execution_stats = Some(execution_stats_of(tbl, trigger.htf_period))]
                     /\ call' = Call("calculate_signals", FALSE, Some(tbl), <<>>)
                ELSE /\ trigger' = [trigger EXCEPT
                            !.execution_time = Some("now"),
                            !.signals_df = Some(tbl)]
                     /\ call' = Call("calculate_signals", TRUE, None, <<>>)
       ELSE /\ trigger' = [trigger EXCEPT !.execution_time = Some("now")]
            /\ call' = Call("calculate_signals", TRUE, None, <<>>)
    /\ UNCHANGED <<pc, data, time_manager, rsi_filter, risk_manager, run>>

\* get_signals()
GetSignals ==
    /\ pc = "trigger"
    /\ call' = Call("get_signals", trigger.signals_df = None, trigger.signals_df, <<>>)
    /\ UNCHANGED <<pc, data, trigger, time_manager, rsi_filter, risk_manager, run>>

\* get_execution_stats()
GetExecutionStats ==
    /\ pc = "trigger"
    /\ call' = Call("get_execution_stats", trigger.execution_stats = None,
                    trigger.execution_stats, <<>>)
    /\ UNCHANGED <<pc, data, trigger, time_manager, rsi_filter, risk_manager, run>>

NextTrigger == CalculateSignals \/ GetSignals \/ GetExecutionStats

SpecTrigger == InitTrigger /\ [][NextTrigger]_vars

(***************************************************************************)
(* TimeManager                                                             *)
(***************************************************************************)
MinutesPerHour == 60
HoursPerDay == 24
MinutesPerDay == 1440

\* timestamp.hour and timestamp.minute
hour_of(ts) == (ts \div MinutesPerHour) % HoursPerDay
minute_of(ts) == ts % MinutesPerHour

\* defaults of TimeManager.__init__ for keys the configuration lacks
DefaultStartHour == 8
DefaultStartMinute == 30
DefaultEndHour == 20
DefaultEndMinute == 30

\* config.get('time_filter', {}): the section, or the defaults of an empty one
time_filter_section(config) ==
    IF config.time_filter = None
    THEN [enabled |-> TRUE,
          session_start |-> [hour |-> DefaultStartHour, minute |-> DefaultStartMinute],
          session_end |-> [hour |-> DefaultEndHour, minute |-> DefaultEndMinute]]
    ELSE config.time_filter[1]

\* TimeManager.__init__: the object; it raises in no case
TimeManager_init(config) ==
    LET tf == time_filter_section(config)
    IN  [enabled |-> tf.enabled,
         session_start_hour |-> tf.session_start.hour,
         session_start_minute |-> tf.session_start.minute,
         session_end_hour |-> tf.session_end.hour,
         session_end_minute |-> tf.session_end.minute,
         session_start_minutes |-> tf.session_start.hour * MinutesPerHour + tf.session_start.minute,
         session_end_minutes |-> tf.session_end.hour * MinutesPerHour + tf.session_end.minute]

\* what TimeManager.__init__ logs (lines 41-47)
TimeManager_log(tm) ==
    IF tm.session_start_minutes >= tm.session_end_minutes
    THEN <<"warning", "info">>
    ELSE <<"info">>

\* is_in_trading_hours with the end of the session included
is_in_trading_hours_end_inclusive(tm, timestamp) ==
    IF ~tm.enabled THEN TRUE
    ELSE LET current_minutes_total == hour_of(timestamp) * MinutesPerHour + minute_of(timestamp)
         IN  /\ tm.session_start_minutes <= current_minutes_total
             /\ current_minutes_total <= tm.session_end_minutes

\* is_in_trading_hours with a session whose start is not before its end read
\* as running over midnight
is_in_trading_hours_overnight(tm, timestamp) ==
    IF ~tm.enabled THEN TRUE
    ELSE LET current_minutes_total == hour_of(timestamp) * MinutesPerHour + minute_of(timestamp)
         IN  IF tm.session_start_minutes < tm.session_end_minutes
             THEN /\ tm.session_start_minutes <= current_minutes_total
                  /\ current_minutes_total < tm.session_end_minutes
             ELSE \/ tm.session_start_minutes <= current_minutes_total
                  \/ current_minutes_total < tm.session_end_minutes

\* is_in_trading_hours, for a pd.Timestamp (no exception in lines 64-66)
is_in_trading_hours(tm, timestamp) ==
    IF ~tm.enabled THEN TRUE
    ELSE LET current_minutes_total == hour_of(timestamp) * MinutesPerHour + minute_of(timestamp)
         IN  /\ tm.session_start_minutes <= current_minutes_total
             /\ current_minutes_total < tm.session_end_minutes

\* filter_signals_by_time with a mask that keeps the end of the session
filter_signals_by_time_end_inclusive(tm, signals_df) ==
    IF signals_df = <<>> THEN signals_df
    ELSE IF tm.enabled
    THEN SelectSeq(signals_df, LAMBDA row : is_in_trading_hours_end_inclusive(tm, row.timestamp))
    ELSE signals_df

\* filter_signals_by_time: signals_df is a sequence of rows with a timestamp
filter_signals_by_time(tm, signals_df) ==
    IF signals_df = <<>> THEN signals_df
    ELSE IF tm.enabled
    THEN SelectSeq(signals_df, LAMBDA row : is_in_trading_hours(tm, row.timestamp))
    ELSE signals_df

(***************************************************************************)
(* Inputs of the TimeManager                                               *)
(***************************************************************************)
MaxDay == 1         \* timestamps fall on days 0..MaxDay

SessionTimes == {[hour |-> 8, minute |-> 30], [hour |-> 20, minute |-> 30],
                 [hour |-> 9, minute |-> 0]}

TimeFilterConfigs ==
    {[time_filter |-> None]} \cup
    {[time_filter |-> Some([enabled |-> e, session_start |-> s, session_end |-> f])] :
        e \in BOOLEAN, s \in SessionTimes, f \in SessionTimes}

QueryHours == {0, 8, 9, 20, 23}
QueryMinutes == {0, 29, 30, 31, 59}
QueryTimes ==
    {d * MinutesPerDay + h * MinutesPerHour + m :
        d \in 0..MaxDay, h \in QueryHours, m \in QueryMinutes}

InitTime ==
    /\ pc = "time"
    /\ data \in [config : TimeFilterConfigs, timestamp : QueryTimes]
    /\ call = Idle
    /\ time_manager = None
    /\ trigger = None /\ rsi_filter = None /\ risk_manager = None /\ run = None

\* time_manager = TimeManager(config)
ConstructTimeManager ==
    /\ pc = "time"
    /\ time_manager = None
    /\ time_manager' = Some(TimeManager_init(data.config))
    /\ call' = Call("TimeManager", FALSE, None, TimeManager_log(TimeManager_init(data.config)))
    /\ UNCHANGED <<pc, data, trigger, rsi_filter, risk_manager, run>>

\* time_manager.is_in_trading_hours(timestamp)
IsInTradingHours ==
    /\ pc = "time"
    /\ time_manager # None
    /\ call' = Call("is_in_trading_hours", FALSE,
                    Some(is_in_trading_hours(time_manager[1], data.timestamp)), <<>>)
    /\ UNCHANGED <<pc, data, time_manager, trigger, rsi_filter, risk_manager, run>>

NextTime == ConstructTimeManager \/ IsInTradingHours

SpecTime == InitTime /\ [][NextTime]_vars

(***************************************************************************)
(* RSIFilter                                                               *)
(***************************************************************************)
\* RSIFilter.__init__
RSIFilter_init(length, overbought, oversold, enabled) ==
    [length |-> length, overbought |-> overbought, oversold |-> oversold,
     enabled |-> enabled]

\* delta = series.diff(): NaN at the first position
rsi_delta(series, t) == IF t = 1 THEN NaN ELSE series[t] - series[t-1]

\* gain taken as the size of the move in either direction
rsi_gain_abs(series) ==
    [t \in 1..Len(series) |->
        IF t > 1 THEN RInt(Abs(series[t] - series[t-1])) ELSE RInt(0)]

\* gain = delta.where(delta > 0, 0.0): 0 where delta is NaN or not positive
rsi_gain(series) ==
    [t \in 1..Len(series) |->
        IF t > 1 /\ series[t] - series[t-1] > 0
        THEN RInt(series[t] - series[t-1]) ELSE RInt(0)]

\* loss = -delta.where(delta < 0, 0.0)
rsi_loss(series) ==
    [t \in 1..Len(series) |->
        IF t > 1 /\ series[t] - series[t-1] < 0
        THEN RInt(series[t-1] - series[t]) ELSE RInt(0)]

\* the RSI of the warm-up and of 0/0: rsi.fillna(100 if len(loss) > 0 else 50)
RsiFill == 100

\* _calculate_rsi_wilder with the warm-up filled with the neutral 50
calculate_rsi_wilder_warmup_neutral(rf, series) ==
    LET avg_gain == ewm_mean(rsi_gain(series), rf.length)
        avg_loss == ewm_mean(rsi_loss(series), rf.length)
    IN  [t \in 1..Len(series) |->
            IF t < rf.length THEN RInt(50)
            ELSE IF avg_loss[t].n = 0
            THEN (IF avg_gain[t].n = 0 THEN RInt(RsiFill) ELSE RInt(100))
            ELSE LET rs == RDiv(avg_gain[t], avg_loss[t])
                 IN  RSub(RInt(100), RDiv(RInt(100), RAdd(RInt(1), rs)))]

\* _calculate_rsi_wilder with a zero average loss mapped to the neutral 50
calculate_rsi_wilder_zero_loss_neutral(rf, series) ==
    LET avg_gain == ewm_mean(rsi_gain(series), rf.length)
        avg_loss == ewm_mean(rsi_loss(series), rf.length)
    IN  [t \in 1..Len(series) |->
            IF t < rf.length THEN RInt(RsiFill)
            ELSE IF avg_loss[t].n = 0
            THEN RInt(50)
            ELSE LET rs == RDiv(avg_gain[t], avg_loss[t])
                 IN  RSub(RInt(100), RDiv(RInt(100), RAdd(RInt(1), rs)))]

\* _calculate_rsi_wilder: the RSI column, a rational per position.
\* ewm(min_periods=length) is NaN before position `length`; avg_gain / avg_loss
\* is +inf for avg_loss = 0 < avg_gain (RSI 100 - 100/inf = 100) and NaN for 0/0;
\* fillna puts RsiFill where the RSI is NaN.
calculate_rsi_wilder(rf, series) ==
    LET avg_gain == ewm_mean(rsi_gain(series), rf.length)
        avg_loss == ewm_mean(rsi_loss(series), rf.length)
    IN  [t \in 1..Len(series) |->
            IF t < rf.length THEN RInt(RsiFill)
            ELSE IF avg_loss[t].n = 0
            THEN (IF avg_gain[t].n = 0 THEN RInt(RsiFill) ELSE RInt(100))
            ELSE LET rs == RDiv(avg_gain[t], avg_loss[t])
                 IN  RSub(RInt(100), RDiv(RInt(100), RAdd(RInt(1), rs)))]

\* apply_filter with the comparisons made non-strict
apply_filter_non_strict(rf, closes, is_long) ==
    IF ~rf.enabled THEN [t \in 1..Len(closes) |-> TRUE]
    ELSE LET rsi == calculate_rsi_wilder(rf, closes)
         IN  IF is_long
             THEN [t \in 1..Len(closes) |-> RLe(rsi[t], RInt(rf.overbought))]
             ELSE [t \in 1..Len(closes) |-> RLe(RInt(rf.oversold), rsi[t])]

\* apply_filter(df, is_long): the boolean column, from the close column of df
apply_filter(rf, closes, is_long) ==
    IF ~rf.enabled THEN [t \in 1..Len(closes) |-> TRUE]
    ELSE LET rsi == calculate_rsi_wilder(rf, closes)
         IN  IF is_long
             THEN [t \in 1..Len(closes) |-> RLt(rsi[t], RInt(rf.overbought))]
             ELSE [t \in 1..Len(closes) |-> RLt(RInt(rf.oversold), rsi[t])]

(***************************************************************************)
(* Inputs of the RSIFilter                                                 *)
(***************************************************************************)
MaxClose == 3       \* closes given to the RSI filter: 1..MaxClose
MaxRsiBars == 4     \* the frame given to the RSI filter has 0..MaxRsiBars rows

RsiLengths == {2, 3}
RsiThresholds == {[overbought |-> 70, oversold |-> 30],
                  [overbought |-> 50, oversold |-> 50],
                  [overbought |-> 100, oversold |-> 0]}

InitRsi ==
    /\ pc = "rsi"
    /\ \E n \in 0..MaxRsiBars :
          data \in [closes : [1..n -> 1..MaxClose], length : RsiLengths,
                    thresholds : RsiThresholds, enabled : BOOLEAN, is_long : BOOLEAN]
    /\ call = Idle
    /\ rsi_filter = None
    /\ trigger = None /\ time_manager = None /\ risk_manager = None /\ run = None

\* rsi_filter = RSIFilter(length, overbought, oversold, enabled)
ConstructRsiFilter ==
    /\ pc = "rsi"
    /\ rsi_filter = None
    /\ rsi_filter' = Some(RSIFilter_init(data.length, data.thresholds.overbought,
                                         data.thresholds.oversold, data.enabled))
    /\ call' = Call("RSIFilter", FALSE, None, <<>>)
    /\ UNCHANGED <<pc, data, trigger, time_manager, risk_manager, run>>

\* rsi_filter.apply_filter(df, is_long)
ApplyFilter ==
    /\ pc = "rsi"
    /\ rsi_filter # None
    /\ call' = Call("apply_filter", FALSE,
                    Some(apply_filter(rsi_filter[1], data.closes, data.is_long)), <<>>)
    /\ UNCHANGED <<pc, data, rsi_filter, trigger, time_manager, risk_manager, run>>

NextRsi == ConstructRsiFilter \/ ApplyFilter

SpecRsi == InitRsi /\ [][NextRsi]_vars

(***************************************************************************)
(* RiskManager                                                             *)
(***************************************************************************)
\* rolling(window=252, min_periods=20)
RollWindow == 252
RollMinPeriods == 20

\* the position of a timestamp in the index of rows, 0 when it is not in it
\* (.loc[timestamp] raises KeyError)
loc(rows, timestamp) ==
    IF \E i \in 1..Len(rows) : rows[i].timestamp = timestamp
    THEN CHOOSE i \in 1..Len(rows) : rows[i].timestamp = timestamp
    ELSE 0

\* the True Range column (lines 65-68); close.shift() is NaN at the first
\* position and max(axis=1) skips NaN
true_range(rows) ==
    [t \in 1..Len(rows) |->
        IF t = 1 THEN RInt(rows[t].high - rows[t].low)
        ELSE RInt(Max({rows[t].high - rows[t].low,
                       Abs(rows[t].high - rows[t-1].close),
                       Abs(rows[t].low - rows[t-1].close)}))]

\* _calculate_atr_wilders
calculate_atr_wilders(rows, length) == ewm_mean(true_range(rows), length)

\* resample('D'): the day of a timestamp
day_of(ts) == ts \div MinutesPerDay

\* daily_df: the days that have bars (resample('D') ... dropna())
daily_days(rows) == {day_of(rows[i].timestamp) : i \in 1..Len(rows)}

\* rolling(window) at day d without the shift(1): the window ends with d itself
rolling_window_unshifted(days, d) ==
    {e \in days : e <= d /\ Cardinality({f \in days : e < f /\ f <= d}) < RollWindow}

\* rolling(window).shift(1) at day d: the last RollWindow days of daily_df before d
rolling_window(days, d) ==
    {e \in days : e < d /\ Cardinality({f \in days : e < f /\ f < d}) < RollWindow}

\* rolling max of the daily highs minus rolling min of the daily lows over a
\* window of days; NaN for fewer than RollMinPeriods days
range_of_days(rows, window) ==
    IF Cardinality(window) < RollMinPeriods THEN RNaN
    ELSE RInt(Max({rows[i].high : i \in {j \in 1..Len(rows) : day_of(rows[j].timestamp) \in window}})
              - Min({rows[i].low : i \in {j \in 1..Len(rows) : day_of(rows[j].timestamp) \in window}}))

\* _calculate_rolling_annual_range: the range attributed to the row at
\* position t; the value of a day is forward filled onto the rows of the day
rolling_annual_range(rows, t) ==
    range_of_days(rows, rolling_window(daily_days(rows), day_of(rows[t].timestamp)))

\* RiskManager.__init__ for a frame with a DatetimeIndex
RiskManager_init(config, rows) ==
    [sl_tp_config |-> config.sl_tp,
     risk_config |-> config.risk_management,
     ohlcv_data |-> rows,
     atr_series |->
        IF config.sl_tp.enabled
        THEN Some(calculate_atr_wilders(rows, config.sl_tp.atr_length))
        ELSE None,
     annual_range_series |->
        IF config.risk_management.enabled /\ rows # <<>>
        THEN Some([t \in 1..Len(rows) |-> rolling_annual_range(rows, t)])
        ELSE None]

NoResult == [stop_loss |-> None, take_profit |-> None]

\* the ATR calculate_sl_tp works with (lines 122-136): manual_atr when given,
\* else the series at the timestamp; None when the lookup fails or neither a
\* timestamp nor an ATR is given
atr_value(rm, timestamp, manual_atr) ==
    IF manual_atr # None THEN manual_atr
    ELSE IF timestamp # None /\ rm.atr_series # None
    THEN (IF loc(rm.ohlcv_data, timestamp[1]) = 0 THEN None
          ELSE Some(rm.atr_series[1][loc(rm.ohlcv_data, timestamp[1])]))
    ELSE None

\* lines 141-155 with the target distance taken from the ATR, not from the stop
sl_tp_from_atr_unscaled_target(rm, entry_price, is_long, atr_val) ==
    LET sl_distance == RMul(atr_val, rm.sl_tp_config.sl_multiplier)
        tp_distance == RMul(atr_val, rm.sl_tp_config.risk_to_reward_ratio)
    IN  IF is_long
        THEN [stop_loss |-> Some(RSub(entry_price, sl_distance)),
              take_profit |-> Some(RAdd(entry_price, tp_distance))]
        ELSE [stop_loss |-> Some(RAdd(entry_price, sl_distance)),
              take_profit |-> Some(RSub(entry_price, tp_distance))]

\* lines 141-155: stop and target from a valid ATR
sl_tp_from_atr(rm, entry_price, is_long, atr_val) ==
    LET sl_distance == RMul(atr_val, rm.sl_tp_config.sl_multiplier)
        tp_distance == RMul(sl_distance, rm.sl_tp_config.risk_to_reward_ratio)
    IN  IF is_long
        THEN [stop_loss |-> Some(RSub(entry_price, sl_distance)),
              take_profit |-> Some(RAdd(entry_price, tp_distance))]
        ELSE [stop_loss |-> Some(RAdd(entry_price, sl_distance)),
              take_profit |-> Some(RSub(entry_price, tp_distance))]

\* calculate_sl_tp with the ATR guard of line 138 testing atr_val < 0 only
calculate_sl_tp_zero_atr(rm, entry_price, is_long, timestamp, manual_atr) ==
    IF ~rm.sl_tp_config.enabled THEN NoResult
    ELSE LET atr == atr_value(rm, timestamp, manual_atr)
         IN  IF atr = None THEN NoResult
             ELSE IF atr[1].n < 0 \/ RIsNaN(atr[1]) THEN NoResult
             ELSE sl_tp_from_atr(rm, entry_price, is_long, atr[1])

\* calculate_sl_tp
calculate_sl_tp(rm, entry_price, is_long, timestamp, manual_atr) ==
    IF ~rm.sl_tp_config.enabled THEN NoResult
    ELSE LET atr == atr_value(rm, timestamp, manual_atr)
         IN  IF atr = None THEN NoResult
             ELSE IF atr[1].n <= 0 \/ RIsNaN(atr[1]) THEN NoResult
             ELSE sl_tp_from_atr(rm, entry_price, is_long, atr[1])

\* validate_risk_percentile without the test max_percentile >= 1.0 of line 190
validate_risk_percentile_no_bypass(rm, entry_price, stop_loss, is_long, timestamp) ==
    IF ~rm.risk_config.enabled
    THEN [is_valid |-> TRUE, stop_loss |-> Some(stop_loss), comment |-> "Risk mgmt disabled"]
    ELSE IF rm.annual_range_series = None
    THEN [is_valid |-> TRUE, stop_loss |-> Some(stop_loss), comment |-> "Annual range data missing"]
    ELSE IF loc(rm.ohlcv_data, timestamp) = 0
    THEN [is_valid |-> TRUE, stop_loss |-> Some(stop_loss), comment |-> "Range data unavailable for date"]
    ELSE LET current_annual_range == rm.annual_range_series[1][loc(rm.ohlcv_data, timestamp)]
             max_percentile == rm.risk_config.max_risk_percentile
         IN  IF RIsNaN(current_annual_range) \/ current_annual_range.n <= 0
             THEN [is_valid |-> TRUE, stop_loss |-> Some(stop_loss),
                   comment |-> "History insufficient for range calc"]
             ELSE LET risk_distance == RAbs(RSub(entry_price, stop_loss))
                      risk_percentile == RDiv(risk_distance, current_annual_range)
                  IN  IF RLe(risk_percentile, max_percentile)
                      THEN [is_valid |-> TRUE, stop_loss |-> Some(stop_loss), comment |-> "Risk"]
                      ELSE IF rm.risk_config.allow_exceed_limit
                      THEN LET adjusted_distance == RMul(max_percentile, current_annual_range)
                           IN  [is_valid |-> TRUE,
                                stop_loss |-> Some(IF is_long
                                                   THEN RSub(entry_price, adjusted_distance)
                                                   ELSE RAdd(entry_price, adjusted_distance)),
                                comment |-> "SL Adjusted"]
                      ELSE [is_valid |-> FALSE, stop_loss |-> None, comment |-> "Risk Rejected"]

\* validate_risk_percentile with the limit test of line 190 made strict
validate_risk_percentile_strict(rm, entry_price, stop_loss, is_long, timestamp) ==
    IF ~rm.risk_config.enabled
    THEN [is_valid |-> TRUE, stop_loss |-> Some(stop_loss), comment |-> "Risk mgmt disabled"]
    ELSE IF rm.annual_range_series = None
    THEN [is_valid |-> TRUE, stop_loss |-> Some(stop_loss), comment |-> "Annual range data missing"]
    ELSE IF loc(rm.ohlcv_data, timestamp) = 0
    THEN [is_valid |-> TRUE, stop_loss |-> Some(stop_loss), comment |-> "Range data unavailable for date"]
    ELSE LET current_annual_range == rm.annual_range_series[1][loc(rm.ohlcv_data, timestamp)]
             max_percentile == rm.risk_config.max_risk_percentile
         IN  IF RIsNaN(current_annual_range) \/ current_annual_range.n <= 0
             THEN [is_valid |-> TRUE, stop_loss |-> Some(stop_loss),
                   comment |-> "History insufficient for range calc"]
             ELSE LET risk_distance == RAbs(RSub(entry_price, stop_loss))
                      risk_percentile == RDiv(risk_distance, current_annual_range)
                  IN  IF RLe(RInt(1), max_percentile) \/ RLt(risk_percentile, max_percentile)
                      THEN [is_valid |-> TRUE, stop_loss |-> Some(stop_loss), comment |-> "Risk"]
                      ELSE IF rm.risk_config.allow_exceed_limit
                      THEN LET adjusted_distance == RMul(max_percentile, current_annual_range)
                           IN  [is_valid |-> TRUE,
                                stop_loss |-> Some(IF is_long
                                                   THEN RSub(entry_price, adjusted_distance)
                                                   ELSE RAdd(entry_price, adjusted_distance)),
                                comment |-> "SL Adjusted"]
                      ELSE [is_valid |-> FALSE, stop_loss |-> None, comment |-> "Risk Rejected"]

\* validate_risk_percentile: [is_valid, stop_loss, comment]
validate_risk_percentile(rm, entry_price, stop_loss, is_long, timestamp) ==
    IF ~rm.risk_config.enabled
    THEN [is_valid |-> TRUE, stop_loss |-> Some(stop_loss), comment |-> "Risk mgmt disabled"]
    ELSE IF rm.annual_range_series = None
    THEN [is_valid |-> TRUE, stop_loss |-> Some(stop_loss), comment |-> "Annual range data missing"]
    ELSE IF loc(rm.ohlcv_data, timestamp) = 0
    THEN [is_valid |-> TRUE, stop_loss |-> Some(stop_loss), comment |-> "Range data unavailable for date"]
    ELSE LET current_annual_range == rm.annual_range_series[1][loc(rm.ohlcv_data, timestamp)]
             max_percentile == rm.risk_config.max_risk_percentile
         IN  IF RIsNaN(current_annual_range) \/ current_annual_range.n <= 0
             THEN [is_valid |-> TRUE, stop_loss |-> Some(stop_loss),
                   comment |-> "History insufficient for range calc"]
             ELSE LET risk_distance == RAbs(RSub(entry_price, stop_loss))
                      risk_percentile == RDiv(risk_distance, current_annual_range)
                  IN  IF RLe(RInt(1), max_percentile) \/ RLe(risk_percentile, max_percentile)
                      THEN [is_valid |-> TRUE, stop_loss |-> Some(stop_loss), comment |-> "Risk"]
                      ELSE IF rm.risk_config.allow_exceed_limit
                      THEN LET adjusted_distance == RMul(max_percentile, current_annual_range)
                           IN  [is_valid |-> TRUE,
                                stop_loss |-> Some(IF is_long
                                                   THEN RSub(entry_price, adjusted_distance)
                                                   ELSE RAdd(entry_price, adjusted_distance)),
                                comment |-> "SL Adjusted"]
                      ELSE [is_valid |-> FALSE, stop_loss |-> None, comment |-> "Risk Rejected"]

(***************************************************************************)
(* Inputs of the RiskManager                                               *)
(***************************************************************************)
MaxRiskPrice == 2   \* prices of the bars given to the RiskManager: 1..MaxRiskPrice

RiskIndex == <<0, 1>>

SlTpConfigs ==
    [enabled : BOOLEAN, atr_length : {2},
     sl_multiplier : {Rat(14, 10)}, risk_to_reward_ratio : {RInt(2), Rat(3, 2)}]

RiskOff == [enabled |-> FALSE, max_risk_percentile |-> RInt(1), allow_exceed_limit |-> FALSE]

EntryPrices == {RInt(2), RInt(18250)}
LookupTimes == {None, Some(1), Some(5)}
ManualAtrs == {None, Some(RNaN), Some(RInt(0)), Some(RInt(0 - 5)), Some(RInt(45))}

InitRisk ==
    /\ pc = "risk"
    /\ \E s \in ShapeSeqs(Len(RiskIndex), MaxRiskPrice) :
          data \in [config : [sl_tp : SlTpConfigs, risk_management : {RiskOff}],
                    rows : {RowsAt(s, RiskIndex)},
                    entry_price : EntryPrices, is_long : BOOLEAN,
                    timestamp : LookupTimes, manual_atr : ManualAtrs]
    /\ call = Idle
    /\ risk_manager = None
    /\ trigger = None /\ time_manager = None /\ rsi_filter = None /\ run = None

\* risk_manager = RiskManager(config, ohlcv_data)
ConstructRiskManager ==
    /\ pc = "risk"
    /\ risk_manager = None
    /\ risk_manager' = Some(RiskManager_init(data.config, data.rows))
    /\ call' = Call("RiskManager", FALSE, None, <<>>)
    /\ UNCHANGED <<pc, data, trigger, time_manager, rsi_filter, run>>

\* risk_manager.calculate_sl_tp(entry_price, is_long, timestamp, manual_atr)
CalculateSlTp ==
    /\ pc = "risk"
    /\ risk_manager # None
    /\ call' = Call("calculate_sl_tp", FALSE,
                    Some(calculate_sl_tp(risk_manager[1], data.entry_price, data.is_long,
                                         data.timestamp, data.manual_atr)), <<>>)
    /\ UNCHANGED <<pc, data, risk_manager, trigger, time_manager, rsi_filter, run>>

NextRisk == ConstructRiskManager \/ CalculateSlTp

SpecRisk == InitRisk /\ [][NextRisk]_vars

(***************************************************************************)
(* Inputs of RiskManager.validate_risk_percentile                          *)
(***************************************************************************)
\* one bar a day, the same every day, for RollMinPeriods days, then one bar on
\* the day after them
DailyHistory(bar) ==
    [d \in 1..(RollMinPeriods + 1) |->
        [timestamp |-> (d - 1) * MinutesPerDay + 10 * MinutesPerHour,
         open |-> bar.open, high |-> bar.high, low |-> bar.low, close |-> bar.close]]

\* daily bars whose rolling range is 2000, 2 and 0
ValidateBars ==
    {[open |-> 1, high |-> 2001, low |-> 1, close |-> 2001],
     [open |-> 1, high |-> 3, low |-> 1, close |-> 3],
     [open |-> 5, high |-> 5, low |-> 5, close |-> 5]}

ValidateFrames == {<<>>} \cup {DailyHistory(bar) : bar \in ValidateBars}

SlTpOff == [enabled |-> FALSE, atr_length |-> 2,
            sl_multiplier |-> Rat(14, 10), risk_to_reward_ratio |-> RInt(2)]

\* risk_config.get('max_risk_percentile', 1.0): what an absent key reads as
DefaultMaxRiskPercentile == RInt(1)

RiskLimits == {Rat(1, 50), Rat(1, 2), DefaultMaxRiskPercentile, Rat(3, 2)}

ValidateRiskConfigs ==
    [enabled : BOOLEAN, max_risk_percentile : RiskLimits, allow_exceed_limit : BOOLEAN]

StopDistances == {0, 1, 40, 1000, 3000}

\* the last bar of the history, its first bar, a timestamp not in the index
ValidateTimes ==
    {RollMinPeriods * MinutesPerDay + 10 * MinutesPerHour, 10 * MinutesPerHour, 7}

InitValidate ==
    /\ pc = "risk"
    /\ \E is_long \in BOOLEAN, entry \in {10, 18250}, dist \in StopDistances :
          data \in [config : [sl_tp : {SlTpOff}, risk_management : ValidateRiskConfigs],
                    rows : ValidateFrames,
                    entry_price : {RInt(entry)},
                    stop_loss : {RInt(IF is_long THEN entry - dist ELSE entry + dist)},
                    is_long : {is_long},
                    timestamp : ValidateTimes]
    /\ call = Idle
    /\ risk_manager = None
    /\ trigger = None /\ time_manager = None /\ rsi_filter = None /\ run = None

\* risk_manager.validate_risk_percentile(entry_price, stop_loss, is_long, timestamp)
ValidateRiskPercentile ==
    /\ pc = "risk"
    /\ risk_manager # None
    /\ call' = Call("validate_risk_percentile", FALSE,
                    Some(validate_risk_percentile(risk_manager[1], data.entry_price,
                                                  data.stop_loss, data.is_long,
                                                  data.timestamp)), <<>>)
    /\ UNCHANGED <<pc, data, risk_manager, trigger, time_manager, rsi_filter, run>>

NextValidate == ConstructRiskManager \/ ValidateRiskPercentile

SpecValidate == InitValidate /\ [][NextValidate]_vars

(***************************************************************************)
(* Histories for the rolling annual range: RollMinPeriods - 1 days of the  *)
(* same bar, then two days of one bar each and a day of two bars           *)
(***************************************************************************)
MaxRangeHigh == 4   \* highs of the last bars: 3..MaxRangeHigh, lows 1..2

RangeBars == {[open |-> l, high |-> h, low |-> l, close |-> h] : l \in 1..2, h \in 3..MaxRangeHigh}

RangeBaseBar == [open |-> 2, high |-> 3, low |-> 2, close |-> 3]

\* the timestamps of the four last bars
RangeTail ==
    <<(RollMinPeriods - 1) * MinutesPerDay + 10 * MinutesPerHour,
      RollMinPeriods * MinutesPerDay + 10 * MinutesPerHour,
      (RollMinPeriods + 1) * MinutesPerDay + 10 * MinutesPerHour,
      (RollMinPeriods + 1) * MinutesPerDay + 15 * MinutesPerHour>>

RangeHistory(tail) ==
    [d \in 1..(RollMinPeriods - 1) |->
        [timestamp |-> (d - 1) * MinutesPerDay + 10 * MinutesPerHour,
         open |-> RangeBaseBar.open, high |-> RangeBaseBar.high,
         low |-> RangeBaseBar.low, close |-> RangeBaseBar.close]]
    \o RowsAt(tail, RangeTail)

InitRange ==
    /\ pc = "risk"
    /\ \E tail \in [1..Len(RangeTail) -> RangeBars], k \in 2..Len(RangeTail) :
          data = [config |-> [sl_tp |-> SlTpOff,
                              risk_management |-> [enabled |-> TRUE,
                                                   max_risk_percentile |-> Rat(1, 2),
                                                   allow_exceed_limit |-> TRUE]],
                  rows |-> RangeHistory(tail),
                  entry_price |-> RInt(tail[k].close),
                  stop_loss |-> RInt(tail[k].close - 2),
                  is_long |-> TRUE,
                  timestamp |-> RangeTail[k]]
    /\ call = Idle
    /\ risk_manager = None
    /\ trigger = None /\ time_manager = None /\ rsi_filter = None /\ run = None

SpecRange == InitRange /\ [][NextValidate]_vars

(***************************************************************************)
(* run_wbws_strategy: the pipeline of scripts/run_wbws_strategy.py.        *)
(* run holds the locals of the function; pc is the step it is about to run *)
(***************************************************************************)
BUY == Some("BUY")
SELL == Some("SELL")

\* a column as the rows [timestamp, signal] of its non-null positions
\* (Series.dropna().items(), DataFrame.dropna(subset=['signal']))
dropna_signals(df, col) ==
    LET all == [i \in 1..Len(df) |-> [timestamp |-> df[i].timestamp, signal |-> col[i]]]
    IN  SelectSeq(all, LAMBDA row : row.signal # None)

count_of(col, sig) == Cardinality({i \in 1..Len(col) : col[i] = sig})

\* lines 54-56: SELL is assigned after BUY
raw_signals_of(signals_df) ==
    [i \in 1..Len(signals_df) |->
        IF signals_df[i].we_sell THEN SELL
        ELSE IF signals_df[i].we_buy THEN BUY ELSE None]

\* lines 85-86: the rows the time filter kept, put back on the index of df
time_filtered_signals_of(df, time_filtered_df) ==
    [i \in 1..Len(df) |->
        IF \E k \in 1..Len(time_filtered_df) : time_filtered_df[k].timestamp = df[i].timestamp
        THEN (CHOOSE row \in {time_filtered_df[k] : k \in 1..Len(time_filtered_df)} :
                 row.timestamp = df[i].timestamp).signal
        ELSE None]

\* lines 124-126 with the masks applied to raw_signals
final_signals_of_raw(r, not_overbought, not_oversold) ==
    [i \in 1..Len(r.raw_signals) |->
        IF r.raw_signals[i] = BUY /\ ~not_overbought[i] THEN None
        ELSE IF r.raw_signals[i] = SELL /\ ~not_oversold[i] THEN None
        ELSE r.raw_signals[i]]

\* lines 124-126: final_signals, from the locals r and the two RSI masks
final_signals_of(r, not_overbought, not_oversold) ==
    [i \in 1..Len(r.time_filtered_signals) |->
        IF r.time_filtered_signals[i] = BUY /\ ~not_overbought[i] THEN None
        ELSE IF r.time_filtered_signals[i] = SELL /\ ~not_oversold[i] THEN None
        ELSE r.time_filtered_signals[i]]

\* round(x, 2) on the exact value: to the nearest hundredth, a tie to the even one
round2(x) ==
    LET scaled == x.n * 100
        q == scaled \div x.d
        rem2 == 2 * (scaled % x.d)
    IN  IF rem2 < x.d THEN Rat(q, 100)
        ELSE IF rem2 > x.d THEN Rat(q + 1, 100)
        ELSE IF q % 2 = 0 THEN Rat(q, 100) ELSE Rat(q + 1, 100)

ZeroCount == [buy |-> 0, sell |-> 0]
\* the count of one direction incremented in the other
bump_swapped(count, is_long) ==
    IF is_long THEN [count EXCEPT !.sell = @ + 1] ELSE [count EXCEPT !.buy = @ + 1]

bump(count, is_long) ==
    IF is_long THEN [count EXCEPT !.buy = @ + 1] ELSE [count EXCEPT !.sell = @ + 1]

\* lines 92-94 and 132-134: the rejections of a stage are its input minus its output
time_rejected(r) ==
    [buy |-> r.raw_buy_count - r.time_filtered_buy,
     sell |-> r.raw_sell_count - r.time_filtered_sell]
rsi_rejected(r) ==
    [buy |-> r.time_filtered_buy - r.final_buy_count,
     sell |-> r.time_filtered_sell - r.final_sell_count]

\* the locals before step 3
RunLocals ==
    [raw_signals |-> None, raw_buy_count |-> 0, raw_sell_count |-> 0,
     time_filtered_signals |-> None, time_filtered_buy |-> 0, time_filtered_sell |-> 0,
     final_signals |-> None, final_buy_count |-> 0, final_sell_count |-> 0,
     risk_input_signals |-> <<>>, next_item |-> 0,
     risk_approved_count |-> ZeroCount, risk_rejected_count |-> ZeroCount,
     risk_adjusted_count |-> ZeroCount,
     trade_details |-> <<>>]

\* step 3, lines 45-59: the raw trigger signals
RunTrigger ==
    /\ pc = "step3"
    /\ LET indicator == WBWSTrigger_init(data.config.indicator.htf_period)
           signals_df == signals_table(data.df, indicator.htf_period)
           raw_signals == raw_signals_of(signals_df)
       IN  /\ trigger' = [indicator EXCEPT
                   !.execution_time = Some("now"),
                   !.signals_df = Some(signals_df),
                   !.execution_stats = Some(execution_stats_of(signals_df, indicator.htf_period))]
           /\ run' = [run EXCEPT
                   !.raw_signals = raw_signals,
                   !.raw_buy_count = count_of(raw_signals, BUY),
                   !.raw_sell_count = count_of(raw_signals, SELL)]
    /\ pc' = "step4"
    /\ call' = Call("calculate_signals", FALSE, None, <<>>)
    /\ UNCHANGED <<data, time_manager, rsi_filter, risk_manager>>

\* step 4, lines 68-95: the time filter
RunTimeFilter ==
    /\ pc = "step4"
    /\ LET tm == TimeManager_init(data.config.trade_management)
           raw_signals_df == dropna_signals(data.df, run.raw_signals)
           time_filtered_df == filter_signals_by_time(tm, raw_signals_df)
           time_filtered_signals == time_filtered_signals_of(data.df, time_filtered_df)
       IN  /\ time_manager' = Some(tm)
           /\ run' = [run EXCEPT
                   !.time_filtered_signals = time_filtered_signals,
                   !.time_filtered_buy = count_of(time_filtered_signals, BUY),
                   !.time_filtered_sell = count_of(time_filtered_signals, SELL)]
           /\ call' = Call("filter_signals_by_time", FALSE, None, TimeManager_log(tm))
    /\ pc' = "step5"
    /\ UNCHANGED <<data, trigger, rsi_filter, risk_manager>>

\* step 5, lines 111-134: the RSI filter, constructed with enabled=True
RunRsiFilter ==
    /\ pc = "step5"
    /\ LET rsi_cfg == data.config.filters.rsi_filter
           rsi_logic == RSIFilter_init(rsi_cfg.length, rsi_cfg.overbought,
                                       rsi_cfg.oversold, TRUE)
           closes == [i \in 1..Len(data.df) |-> data.df[i].close]
           not_overbought == apply_filter(rsi_logic, closes, TRUE)
           not_oversold == apply_filter(rsi_logic, closes, FALSE)
           final_signals == final_signals_of(run, not_overbought, not_oversold)
       IN  /\ rsi_filter' = Some(rsi_logic)
           /\ run' = [run EXCEPT
                   !.final_signals = final_signals,
                   !.final_buy_count = count_of(final_signals, BUY),
                   !.final_sell_count = count_of(final_signals, SELL)]
    /\ pc' = "step6"
    /\ call' = Call("apply_filter", FALSE, None, <<>>)
    /\ UNCHANGED <<data, trigger, time_manager, risk_manager>>

\* step 6, lines 152-160: the RiskManager on the full data, the loop's input
RunRiskManager ==
    /\ pc = "step6"
    /\ risk_manager' = Some(RiskManager_init(data.config.trade_management, data.df_full))
    /\ run' = [run EXCEPT
            !.risk_input_signals = dropna_signals(data.df, run.final_signals),
            !.next_item = 1]
    /\ pc' = "loop"
    /\ call' = Call("RiskManager", FALSE, None, <<>>)
    /\ UNCHANGED <<data, trigger, time_manager, rsi_filter>>

\* line 177 left out: the rejected signal stays in final_signals
drop_signal_kept(df, col, timestamp) == col

\* final_signals.loc[timestamp] = None
drop_signal(df, col, timestamp) ==
    [i \in 1..Len(col) |-> IF df[i].timestamp = timestamp THEN None ELSE col[i]]

\* lines 210-219: the record of an approved trade
trade_record(item, entry_price, stop_loss, take_profit, comment) ==
    [timestamp |-> item.timestamp,
     signal |-> item.signal[1],
     entry |-> round2(entry_price),
     sl |-> round2(stop_loss),
     tp |-> round2(take_profit),
     sl_distance |-> round2(RAbs(RSub(entry_price, stop_loss))),
     tp_distance |-> round2(RAbs(RSub(entry_price, take_profit))),
     comment |-> comment]

\* lines 193-204 with the take profit of calculate_sl_tp kept after an adjustment
final_take_profit_kept(entry_price, is_long, stop_loss, take_profit, adjusted_sl, rr_ratio) ==
    take_profit

\* lines 193-204: the take profit of the trade, recomputed from the adjusted
\* stop when validate_risk_percentile returned another stop
final_take_profit(entry_price, is_long, stop_loss, take_profit, adjusted_sl, rr_ratio) ==
    IF adjusted_sl # stop_loss
    THEN LET sl_distance == RAbs(RSub(entry_price, adjusted_sl))
             tp_distance == RMul(sl_distance, rr_ratio)
         IN  IF is_long THEN RAdd(entry_price, tp_distance)
             ELSE RSub(entry_price, tp_distance)
    ELSE take_profit

\* lines 162-219: one iteration of the loop over risk_input_signals
RunRiskSignal ==
    /\ pc = "loop"
    /\ run.next_item <= Len(run.risk_input_signals)
    /\ LET item == run.risk_input_signals[run.next_item]
           timestamp == item.timestamp
           is_long == (item.signal = BUY)
           entry_price == RInt(data.df[loc(data.df, timestamp)].close)
           sl_tp == calculate_sl_tp(risk_manager[1], entry_price, is_long,
                                    Some(timestamp), None)
       IN  IF sl_tp.stop_loss = None \/ sl_tp.take_profit = None
           THEN /\ run' = [run EXCEPT
                        !.risk_rejected_count = bump(@, is_long),
                        !.final_signals = drop_signal(data.df, @, timestamp),
                        !.next_item = @ + 1]
                /\ call' = Call("calculate_sl_tp", FALSE, Some(sl_tp), <<>>)
           ELSE LET stop_loss == sl_tp.stop_loss[1]
                    v == validate_risk_percentile(risk_manager[1], entry_price,
                                                  stop_loss, is_long, timestamp)
                IN  /\ call' = Call("validate_risk_percentile", FALSE, Some(v), <<>>)
                    /\ IF ~v.is_valid
                       THEN run' = [run EXCEPT
                                !.risk_rejected_count = bump(@, is_long),
                                !.final_signals = drop_signal(data.df, @, timestamp),
                                !.next_item = @ + 1]
                       ELSE LET adjusted == v.stop_loss[1] # stop_loss
                                rr_ratio == risk_manager[1].sl_tp_config.risk_to_reward_ratio
                                take_profit ==
                                    final_take_profit(entry_price, is_long, stop_loss,
                                                      sl_tp.take_profit[1], v.stop_loss[1],
                                                      rr_ratio)
                            IN  run' = [run EXCEPT
                                    !.risk_adjusted_count =
                                        IF adjusted THEN bump(@, is_long) ELSE @,
                                    !.risk_approved_count = bump(@, is_long),
                                    !.trade_details =
                                        Append(@, trade_record(item, entry_price,
                                                   v.stop_loss[1], take_profit, v.comment)),
                                    !.next_item = @ + 1]
    /\ UNCHANGED <<pc, data, trigger, time_manager, rsi_filter, risk_manager>>

\* lines 221-231: the loop is over, the totals are reported
RunReport ==
    /\ pc = "loop"
    /\ run.next_item > Len(run.risk_input_signals)
    /\ pc' = "done"
    /\ call' = Call("report", FALSE, None, <<>>)
    /\ UNCHANGED <<data, trigger, time_manager, rsi_filter, risk_manager, run>>

(***************************************************************************)
(* Inputs of the pipeline                                                  *)
(***************************************************************************)
MaxRunPrice == 2   \* prices of the bars of the backtest range: 1..MaxRunPrice

\* the bars before the backtest range: one bar a day for RollMinPeriods days
HistoryDays == RollMinPeriods
HistoryBar == [open |-> 1, high |-> 3, low |-> 1, close |-> 3]
History ==
    [d \in 1..HistoryDays |->
        [timestamp |-> (d - 1) * MinutesPerDay + 10 * MinutesPerHour,
         open |-> HistoryBar.open, high |-> HistoryBar.high,
         low |-> HistoryBar.low, close |-> HistoryBar.close]]

\* the backtest range: 08:27 .. 08:30 of the day after the history
RunIndex ==
    [i \in 1..4 |-> HistoryDays * MinutesPerDay + 8 * MinutesPerHour + 26 + i]

DefaultSession ==
    [enabled |-> TRUE,
     session_start |-> [hour |-> DefaultStartHour, minute |-> DefaultStartMinute],
     session_end |-> [hour |-> DefaultEndHour, minute |-> DefaultEndMinute]]

RunTimeConfigs == {Some(DefaultSession), Some([DefaultSession EXCEPT !.enabled = FALSE])}

\* a session that starts at the default end and ends at the default start
InvertedSession ==
    [enabled |-> TRUE,
     session_start |-> [hour |-> DefaultEndHour, minute |-> DefaultEndMinute],
     session_end |-> [hour |-> DefaultStartHour, minute |-> DefaultStartMinute]]

RunRsiConfigs ==
    {[enabled |-> TRUE, length |-> 2, overbought |-> 80, oversold |-> 20],
     [enabled |-> FALSE, length |-> 2, overbought |-> 60, oversold |-> 40]}

SlTpOn == [enabled |-> TRUE, atr_length |-> 2,
           sl_multiplier |-> Rat(14, 10), risk_to_reward_ratio |-> RInt(2)]
RiskReject == [enabled |-> TRUE, max_risk_percentile |-> Rat(4, 5), allow_exceed_limit |-> FALSE]
RiskAdjust == [RiskReject EXCEPT !.allow_exceed_limit = TRUE]

\* [sl_tp, risk_management, whether the data file has bars before the range]
RiskPlain == [sl_tp |-> SlTpOn, risk_management |-> RiskOff, history |-> FALSE]
RunRiskConfigs ==
    {[sl_tp |-> [SlTpOn EXCEPT !.enabled = FALSE], risk_management |-> RiskOff, history |-> FALSE],
     [sl_tp |-> SlTpOn, risk_management |-> RiskReject, history |-> FALSE],
     [sl_tp |-> SlTpOn, risk_management |-> RiskReject, history |-> TRUE],
     [sl_tp |-> SlTpOn, risk_management |-> RiskAdjust, history |-> TRUE]}

\* the configurations of a run: every time and RSI section with the plain risk
\* section, the inverted session, every other risk section with the time
\* filter off
RunConfigs ==
    {[tf |-> tf, rsi |-> rsi, rk |-> RiskPlain] : tf \in RunTimeConfigs, rsi \in RunRsiConfigs}
    \cup {[tf |-> Some(InvertedSession),
           rsi |-> [enabled |-> FALSE, length |-> 2, overbought |-> 60, oversold |-> 40],
           rk |-> RiskPlain]}
    \cup {[tf |-> Some([DefaultSession EXCEPT !.enabled = FALSE]),
           rsi |-> [enabled |-> TRUE, length |-> 2, overbought |-> 80, oversold |-> 20],
           rk |-> rk] : rk \in RunRiskConfigs}

RunConfig(tf, rsi, rk) ==
    [indicator |-> [htf_period |-> 2],
     trade_management |-> [time_filter |-> tf, sl_tp |-> rk.sl_tp,
                           risk_management |-> rk.risk_management],
     filters |-> [rsi_filter |-> rsi]]

\* the trigger fires on some bar of df
HasRawSignal(df) ==
    \E i \in 1..Len(df) : signals_table(df, 2)[i].we_buy \/ signals_table(df, 2)[i].we_sell

Init ==
    /\ pc = "step3"
    /\ \E s \in ShapeSeqs(Len(RunIndex), MaxRunPrice) :
          LET df == RowsAt(s, RunIndex)
          IN  /\ HasRawSignal(df)
              /\ \E c \in RunConfigs :
                    data = [config |-> RunConfig(c.tf, c.rsi, c.rk),
                            df |-> df,
                            df_full |-> IF c.rk.history THEN History \o df ELSE df]
    /\ run = RunLocals
    /\ call = Idle
    /\ trigger = None /\ time_manager = None /\ rsi_filter = None /\ risk_manager = None

Next ==
    \/ RunTrigger
    \/ RunTimeFilter
    \/ RunRsiFilter
    \/ RunRiskManager
    \/ RunRiskSignal
    \/ RunReport

Spec == Init /\ [][Next]_vars

(***************************************************************************)
(* classify_candle as a function of two bars                               *)
(***************************************************************************)
HLValues == (1..MaxHL) \cup {NaN}
HLBars == [high : HLValues, low : HLValues]

InitClassify ==
    /\ pc = "classify"
    /\ data \in [current_bar : HLBars, previous_bar : HLBars]
    /\ call = Idle
    /\ trigger = None /\ time_manager = None /\ rsi_filter = None
    /\ risk_manager = None /\ run = None

ClassifyCandle ==
    /\ pc = "classify"
    /\ call' = Call("classify_candle", FALSE,
                    Some(classify_candle(data.current_bar, data.previous_bar)), <<>>)
    /\ UNCHANGED <<pc, data, trigger, time_manager, rsi_filter, risk_manager, run>>

NextClassify == ClassifyCandle

SpecClassify == InitClassify /\ [][NextClassify]_vars

(***************************************************************************)
(* Claims about the trigger                                                *)
(***************************************************************************)
\* the table of the last successful calculate_signals, <<>> before it
SignalsTable == IF trigger.signals_df = None THEN <<>> ELSE trigger.signals_df[1]

\* C2: after calculate_signals no bar has both we_buy and we_sell true.
C2_BuySellExclusive ==
    \A i \in 1..Len(SignalsTable) : ~(SignalsTable[i].we_buy /\ SignalsTable[i].we_sell)

\* calculate_signals produced a Sell on a bar whose HTF state is Bearish
C2_Witness ==
    \E i \in 1..Len(SignalsTable) :
        SignalsTable[i].we_sell /\ SignalsTable[i].htf_bear /\ ~SignalsTable[i].we_buy

\* the candle type of bar i of the table, Unclassified (NaN) where there is no bar
TypeAt(i) == IF i < 1 THEN NaN ELSE SignalsTable[i].candle_type

\* C3: we_buy at bar i exactly when bar i-1 is DirectionalDown, bar i is
\* DirectionalUp and the HTF state of bar i is Bullish; we_sell exactly when bar
\* i-1 is DirectionalUp, bar i is DirectionalDown and the HTF state of bar i is
\* Bearish; no signal when bar i or bar i-1 is Unclassified.
C3_SignalIffReversalAndHtf ==
    \A i \in 1..Len(SignalsTable) :
        /\ SignalsTable[i].we_buy <=>
              /\ TypeAt(i-1) = DirectionalDown
              /\ TypeAt(i) = DirectionalUp
              /\ SignalsTable[i].htf_bull
        /\ SignalsTable[i].we_sell <=>
              /\ TypeAt(i-1) = DirectionalUp
              /\ TypeAt(i) = DirectionalDown
              /\ SignalsTable[i].htf_bear
        /\ (isna(TypeAt(i)) \/ isna(TypeAt(i-1))) =>
              (~SignalsTable[i].we_buy /\ ~SignalsTable[i].we_sell)

\* calculate_signals produced a Buy on the bar after a DirectionalDown bar
C3_Witness ==
    \E i \in 2..Len(SignalsTable) :
        /\ SignalsTable[i].we_buy
        /\ SignalsTable[i-1].candle_type = DirectionalDown
        /\ SignalsTable[i].candle_type = DirectionalUp
        /\ SignalsTable[i].htf_bull

\* sign of a difference
Sign(x) == IF x > 0 THEN 1 ELSE IF x < 0 THEN 0 - 1 ELSE 0

\* C4: for bars with non-missing high and low, over all sign combinations of
\* (high_cur - high_prev, low_cur - low_prev), classify_candle returns one of
\* Inside, Outside, DirectionalUp, DirectionalDown, never Unclassified; equal
\* highs and equal lows classify as Inside.
C4_ClassifyExhaustive ==
    (call.op = "classify_candle"
        /\ ~isna(data.current_bar.high) /\ ~isna(data.current_bar.low)
        /\ ~isna(data.previous_bar.high) /\ ~isna(data.previous_bar.low)) =>
    LET dh == Sign(data.current_bar.high - data.previous_bar.high)
        dl == Sign(data.current_bar.low - data.previous_bar.low)
        ret == call.ret[1]
    IN  /\ ret \in {Inside, Outside, DirectionalUp, DirectionalDown}
        /\ ~isna(ret)
        /\ (dh = 0 /\ dl = 0) => ret = Inside
        /\ (ret = Inside) <=> (dh <= 0 /\ dl >= 0)
        /\ (ret = Outside) <=> (dh > 0 /\ dl < 0)
        /\ (ret = DirectionalUp) <=> (dh > 0 /\ dl >= 0)
        /\ (ret = DirectionalDown) <=> (dh <= 0 /\ dl < 0)

\* the boundary case was classified: equal highs and equal lows
C4_Witness ==
    /\ call.op = "classify_candle"
    /\ ~isna(data.current_bar.high) /\ ~isna(data.current_bar.low)
    /\ data.current_bar.high = data.previous_bar.high
    /\ data.current_bar.low = data.previous_bar.low
    /\ call.ret[1] = Inside

(***************************************************************************)
(* Claims about the TimeManager                                            *)
(***************************************************************************)
\* the time_filter section the TimeManager was built from
TimeCfg == time_filter_section(data.config)
CfgStartMinutes == TimeCfg.session_start.hour * 60 + TimeCfg.session_start.minute
CfgEndMinutes == TimeCfg.session_end.hour * 60 + TimeCfg.session_end.minute
\* minutes since midnight of the queried timestamp
BarMinutes == hour_of(data.timestamp) * 60 + minute_of(data.timestamp)

\* C5: is_in_trading_hours(t) is true exactly when the filter is disabled or
\* session_start_minutes <= hour(t)*60+minute(t) < session_end_minutes; for the
\* session 08:30-20:30 the bars at 08:29 and 20:30 are rejected and the bars at
\* 08:30 and 20:29 are accepted.
C5_InTradingHoursIffInSession ==
    call.op = "is_in_trading_hours" =>
        /\ call.ret[1] <=>
              (~TimeCfg.enabled \/ (CfgStartMinutes <= BarMinutes /\ BarMinutes < CfgEndMinutes))
        /\ (TimeCfg.enabled /\ CfgStartMinutes = 8 * 60 + 30 /\ CfgEndMinutes = 20 * 60 + 30) =>
              /\ BarMinutes = 8 * 60 + 29 => ~call.ret[1]
              /\ BarMinutes = 8 * 60 + 30 => call.ret[1]
              /\ BarMinutes = 20 * 60 + 29 => call.ret[1]
              /\ BarMinutes = 20 * 60 + 30 => ~call.ret[1]

\* the bar at 20:30 of a later day was rejected by the session 08:30-20:30
C5_Witness ==
    /\ call.op = "is_in_trading_hours"
    /\ TimeCfg.enabled
    /\ CfgStartMinutes = 8 * 60 + 30 /\ CfgEndMinutes = 20 * 60 + 30
    /\ BarMinutes = 20 * 60 + 30
    /\ data.timestamp >= MinutesPerDay
    /\ ~call.ret[1]

\* C6: constructing the TimeManager with the filter enabled and
\* start_minutes >= end_minutes fails: the constructor raises and no usable
\* TimeManager is produced.
C6_InvalidSessionFails ==
    (TimeCfg.enabled /\ CfgStartMinutes >= CfgEndMinutes) =>
        /\ time_manager = None
        /\ call.op = "TimeManager" => call.raised

(***************************************************************************)
(* Claims about the RSIFilter                                              *)
(***************************************************************************)
\* the RSI column of the closes the caller holds, for the constructed filter
RsiColumn == calculate_rsi_wilder(rsi_filter[1], data.closes)

\* C7: apply_filter allows a bar for a Buy candidate exactly when the RSI at
\* that bar is strictly below the overbought threshold, and for a Sell candidate
\* exactly when the RSI is strictly above the oversold threshold; a filter
\* constructed disabled allows every bar for both directions.
C7_RsiFilterContract ==
    call.op = "apply_filter" =>
        /\ DOMAIN call.ret[1] = 1..Len(data.closes)
        /\ \A t \in 1..Len(data.closes) :
              IF ~data.enabled THEN call.ret[1][t]
              ELSE IF data.is_long
              THEN call.ret[1][t] <=>
                      RsiColumn[t].n < data.thresholds.overbought * RsiColumn[t].d
              ELSE call.ret[1][t] <=>
                      RsiColumn[t].n > data.thresholds.oversold * RsiColumn[t].d

\* an enabled filter vetoed a Buy on a bar whose RSI equals the overbought
\* threshold, past the warm-up
C7_Witness ==
    /\ call.op = "apply_filter"
    /\ data.enabled /\ data.is_long
    /\ \E t \in 1..Len(data.closes) :
          /\ t >= data.length
          /\ RsiColumn[t].n = data.thresholds.overbought * RsiColumn[t].d
          /\ ~call.ret[1][t]
    /\ \E t \in 1..Len(data.closes) : call.ret[1][t]

(***************************************************************************)
(* Claims about RiskManager.calculate_sl_tp                                *)
(***************************************************************************)
\* the ATR calculate_sl_tp was called with: the manual ATR when given, else the
\* ATR series at the timestamp; <<>> when there is none
GivenAtr ==
    IF data.manual_atr # None THEN data.manual_atr
    ELSE IF data.timestamp = None THEN None
    ELSE IF ~data.config.sl_tp.enabled THEN None
    ELSE IF \A i \in 1..Len(data.rows) : data.rows[i].timestamp # data.timestamp[1] THEN None
    ELSE Some(calculate_atr_wilders(data.rows, data.config.sl_tp.atr_length)[
                 CHOOSE i \in 1..Len(data.rows) : data.rows[i].timestamp = data.timestamp[1]])

SlTpResult == call.ret[1]

\* C9: whenever calculate_sl_tp returns a result for a valid positive ATR,
\* stop_distance = ATR * sl_multiplier and target_distance = stop_distance *
\* risk_to_reward_ratio; long: stop = entry - stop_distance, target = entry +
\* target_distance; short: mirrored; so |target - entry| / |entry - stop| is the
\* R:R ratio. ATR 45, multiplier 1.4, R:R 2.0, entry 18250, long: stop 18187,
\* target 18376.
C9_StopTargetFromAtr ==
    (call.op = "calculate_sl_tp" /\ SlTpResult.stop_loss # None) =>
        LET atr == GivenAtr[1]
            mult == data.config.sl_tp.sl_multiplier
            rr == data.config.sl_tp.risk_to_reward_ratio
            stop == SlTpResult.stop_loss[1]
            target == SlTpResult.take_profit[1]
            entry == data.entry_price
            \* stop_distance = ATR * mult, as fractions over mult.d * atr.d
            sd_n == atr.n * mult.n
            sd_d == atr.d * mult.d
        IN  /\ atr.d > 0 /\ atr.n > 0
            /\ IF data.is_long
               THEN /\ stop.n * sd_d * entry.d = (entry.n * sd_d - sd_n * entry.d) * stop.d
                    /\ target.n * sd_d * rr.d * entry.d
                          = (entry.n * sd_d * rr.d + sd_n * rr.n * entry.d) * target.d
               ELSE /\ stop.n * sd_d * entry.d = (entry.n * sd_d + sd_n * entry.d) * stop.d
                    /\ target.n * sd_d * rr.d * entry.d
                          = (entry.n * sd_d * rr.d - sd_n * rr.n * entry.d) * target.d
            /\ REq(RAbs(RSub(target, entry)), RMul(rr, RAbs(RSub(entry, stop))))
            /\ (atr = RInt(45) /\ mult = Rat(14, 10) /\ rr = RInt(2)
                   /\ entry = RInt(18250) /\ data.is_long) =>
                  (stop = RInt(18187) /\ target = RInt(18376))

\* the scenario of the claim: ATR 45, multiplier 1.4, R:R 2, entry 18250, long
C9_Witness ==
    /\ call.op = "calculate_sl_tp"
    /\ data.manual_atr = Some(RInt(45))
    /\ data.config.sl_tp.risk_to_reward_ratio = RInt(2)
    /\ data.entry_price = RInt(18250)
    /\ data.is_long
    /\ SlTpResult.stop_loss = Some(RInt(18187))
    /\ SlTpResult.take_profit = Some(RInt(18376))

\* C10: calculate_sl_tp returns no result (stop and target both absent) whenever
\* SL/TP is disabled, the ATR is missing (no manual ATR and the timestamp is not
\* in the ATR series or not given), or the ATR is NaN, zero or negative; it never
\* returns only one of the two values.
C10_NoResultWithoutValidAtr ==
    call.op = "calculate_sl_tp" =>
        /\ (SlTpResult.stop_loss = None) <=> (SlTpResult.take_profit = None)
        /\ ~data.config.sl_tp.enabled => SlTpResult = NoResult
        /\ GivenAtr = None => SlTpResult = NoResult
        /\ (GivenAtr # None /\ (GivenAtr[1].d = 0 \/ GivenAtr[1].n <= 0)) => SlTpResult = NoResult

\* no result for an ATR of zero read from the series at a timestamp of the index
C10_Witness ==
    /\ call.op = "calculate_sl_tp"
    /\ data.config.sl_tp.enabled
    /\ data.manual_atr = None /\ data.timestamp = Some(1)
    /\ GivenAtr = Some(RInt(0))
    /\ SlTpResult = NoResult

(***************************************************************************)
(* Claims about the pipeline                                               *)
(***************************************************************************)
\* the steps of run_wbws_strategy in program order
Stage(p) ==
    CASE p = "step3" -> 3 [] p = "step4" -> 4 [] p = "step5" -> 5
      [] p = "step6" -> 6 [] p = "loop" -> 7 [] p = "done" -> 8

RunBars == 1..Len(data.df)

\* the rows of risk_input_signals the loop has gone through
RiskEvaluated == {run.risk_input_signals[k] : k \in 1..(run.next_item - 1)}

SignalAt(col, timestamp) == col[loc(data.df, timestamp)]

\* every stage works on the survivors of the stage before it, in the order
\* trigger, time filter, RSI filter, risk engine
C1_Chain ==
    /\ Stage(pc) >= 5 =>
          \A i \in RunBars :
             run.time_filtered_signals[i] # None =>
                run.time_filtered_signals[i] = run.raw_signals[i]
    /\ Stage(pc) >= 6 =>
          \A i \in RunBars :
             run.final_signals[i] # None =>
                run.final_signals[i] = run.time_filtered_signals[i]
    /\ Stage(pc) < 7 => (run.risk_input_signals = <<>> /\ run.trade_details = <<>>)
    /\ Stage(pc) >= 7 =>
          /\ \A k \in 1..Len(run.risk_input_signals) :
                LET row == run.risk_input_signals[k]
                IN  /\ row.signal # None
                    /\ SignalAt(run.time_filtered_signals, row.timestamp) = row.signal
                    /\ SignalAt(run.raw_signals, row.timestamp) = row.signal
          /\ \A i \in RunBars :
                run.final_signals[i] # None =>
                   \E k \in 1..Len(run.risk_input_signals) :
                      run.risk_input_signals[k]
                         = [timestamp |-> data.df[i].timestamp, signal |-> run.final_signals[i]]
          /\ \A t \in 1..Len(run.trade_details) :
                LET rec == run.trade_details[t]
                IN  /\ \E row \in RiskEvaluated :
                          row.timestamp = rec.timestamp /\ row.signal = Some(rec.signal)
                    /\ SignalAt(run.final_signals, rec.timestamp) = Some(rec.signal)
                    /\ SignalAt(run.raw_signals, rec.timestamp) = Some(rec.signal)
          /\ \A row \in RiskEvaluated :
                SignalAt(run.final_signals, row.timestamp) # None =>
                   \E t \in 1..Len(run.trade_details) :
                      run.trade_details[t].timestamp = row.timestamp

\* the steps run forward, a column a stage has produced is not written again,
\* and a timestamp without a signal in final_signals never gets one back
C1_Permanent ==
    /\ Stage(pc') >= Stage(pc)
    /\ Stage(pc) >= 4 => run'.raw_signals = run.raw_signals
    /\ Stage(pc) >= 5 => run'.time_filtered_signals = run.time_filtered_signals
    /\ Stage(pc) >= 7 => run'.risk_input_signals = run.risk_input_signals
    /\ Stage(pc) >= 6 =>
          \A i \in RunBars : run.final_signals[i] = None => run'.final_signals[i] = None
    /\ \A t \in 1..Len(run.trade_details) :
          t <= Len(run'.trade_details) /\ run'.trade_details[t] = run.trade_details[t]

\* C1: in run_wbws_strategy the stages run in the order Trigger -> Time filter ->
\* RSI filter -> Risk engine and a rejection is permanent: a risk-approved
\* timestamp survived the RSI filter, hence the time filter, hence is a raw
\* trigger signal of the same direction; a signal a stage rejected is not
\* evaluated by a later stage and is not in trade_details.
C1_StagesInOrderRejectionPermanent == []C1_Chain /\ [][C1_Permanent]_vars

\* a finished run where the time filter rejected one raw signal and the risk
\* engine approved another
C1_Witness ==
    /\ pc = "done"
    /\ \E i \in RunBars :
          /\ run.raw_signals[i] # None
          /\ run.time_filtered_signals[i] = None
          /\ run.final_signals[i] = None
    /\ \E j \in RunBars :
          /\ run.final_signals[j] # None
          /\ \E t \in 1..Len(run.trade_details) :
                run.trade_details[t].timestamp = data.df[j].timestamp

\* C8: in a run whose configuration has rsi_filter.enabled = false, the signals
\* after the RSI stage are the signals after the time filter.
C8_RsiDisabledRejectsNothing ==
    (pc = "step6" /\ ~data.config.filters.rsi_filter.enabled) =>
        run.final_signals = run.time_filtered_signals

(***************************************************************************)
(* Claims about RiskManager.validate_risk_percentile                       *)
(***************************************************************************)
\* the rolling annual range at the timestamp of the call: <<>> when there is
\* no series or the timestamp is not in the index
RangeAt ==
    IF data.rows = <<>> THEN None
    ELSE IF \A i \in 1..Len(data.rows) : data.rows[i].timestamp # data.timestamp THEN None
    ELSE Some(rolling_annual_range(data.rows,
                 CHOOSE i \in 1..Len(data.rows) : data.rows[i].timestamp = data.timestamp))

RangeUsable == RangeAt # None /\ RangeAt[1].d # 0 /\ RangeAt[1].n > 0

RiskCfg == data.config.risk_management

\* |entry - stop_loss| and max_risk_percentile * range, compared without division
RiskDistance == RAbs(RSub(data.entry_price, data.stop_loss))
LimitDistance == RMul(RiskCfg.max_risk_percentile, RangeAt[1])

Validated == call.ret[1]

\* C11: validate_risk_percentile approves and returns the stop_loss it was
\* given, unchanged, whenever risk capping is disabled, the rolling annual range
\* at the timestamp is unavailable (no series, timestamp absent, NaN) or
\* non-positive, or |entry - stop_loss| / range <= max_risk_percentile.
C11_ApprovedUnchanged ==
    (/\ call.op = "validate_risk_percentile"
     /\ \/ ~RiskCfg.enabled
        \/ ~RangeUsable
        \/ RLe(RiskDistance, LimitDistance)) =>
        /\ Validated.is_valid
        /\ Validated.stop_loss = Some(data.stop_loss)

\* a stop exactly at the limit (40 points of a range of 2000 at 2%) is approved
C11_Witness ==
    /\ call.op = "validate_risk_percentile"
    /\ RiskCfg.enabled /\ RangeUsable
    /\ RangeAt[1] = RInt(2000) /\ RiskCfg.max_risk_percentile = Rat(1, 50)
    /\ RiskDistance = RInt(40)
    /\ Validated.is_valid /\ Validated.stop_loss = Some(data.stop_loss)

\* C12: when risk capping is enabled, the range is positive, the risk fraction
\* exceeds max_risk_percentile and allow_exceed_limit is configured,
\* validate_risk_percentile approves with a stop at exactly max_risk_percentile *
\* range from entry, on the loss side: at or below entry for a long, at or above
\* it for a short.
C12_AdjustedStopAtLimit ==
    (/\ call.op = "validate_risk_percentile"
     /\ RiskCfg.enabled /\ RangeUsable
     /\ RLt(LimitDistance, RiskDistance)
     /\ RiskCfg.allow_exceed_limit) =>
        /\ Validated.is_valid
        /\ Validated.stop_loss # None
        /\ REq(RAbs(RSub(data.entry_price, Validated.stop_loss[1])), LimitDistance)
        /\ IF data.is_long
           THEN RLe(Validated.stop_loss[1], data.entry_price)
           ELSE RLe(data.entry_price, Validated.stop_loss[1])

\* C13: when risk capping is enabled, the range is positive, the risk fraction
\* is greater than max_risk_percentile and allow_exceed_limit is not configured,
\* validate_risk_percentile rejects and returns no stop, for every value of
\* max_risk_percentile.
C13_RejectedOverLimit ==
    (/\ call.op = "validate_risk_percentile"
     /\ RiskCfg.enabled /\ RangeUsable
     /\ RLt(LimitDistance, RiskDistance)
     /\ ~RiskCfg.allow_exceed_limit) =>
        /\ ~Validated.is_valid
        /\ Validated.stop_loss = None

(***************************************************************************)
(* Claims about the trade records and the counts of the pipeline           *)
(***************************************************************************)
RunRiskManager_ == risk_manager[1]
RunRR == data.config.trade_management.sl_tp.risk_to_reward_ratio

RecEntry(rec) == RInt(data.df[loc(data.df, rec.timestamp)].close)

\* the stop calculate_sl_tp proposes for the bar of a record
RecProposedStop(rec) ==
    calculate_sl_tp(RunRiskManager_, RecEntry(rec), rec.signal = "BUY",
                    Some(rec.timestamp), None).stop_loss[1]

\* the stop validate_risk_percentile returns for it: the final stop of the trade
RecFinalStop(rec) ==
    validate_risk_percentile(RunRiskManager_, RecEntry(rec), RecProposedStop(rec),
                             rec.signal = "BUY", rec.timestamp).stop_loss[1]

\* C14 as stated: in every trade record target_distance = risk_to_reward_ratio *
\* stop_distance, with the target on the profit side of entry.
C14_RecordTargetFromStop ==
    Stage(pc) >= 7 =>
        \A t \in 1..Len(run.trade_details) :
            LET rec == run.trade_details[t]
            IN  /\ REq(rec.tp_distance, RMul(RunRR, rec.sl_distance))
                /\ IF rec.signal = "BUY" THEN RLt(rec.entry, rec.tp)
                   ELSE RLt(rec.tp, rec.entry)

\* C14, amended: every trade record holds, rounded to two decimals, the final
\* stop S of the trade (the stop validate_risk_percentile returned, adjusted or
\* not) and the target entry +/- risk_to_reward_ratio * |entry - S| on the
\* profit side of entry; the equality of the distances is exact before the
\* rounding, not between the rounded fields of the record.
C14_TargetFromFinalStop ==
    Stage(pc) >= 7 =>
        \A t \in 1..Len(run.trade_details) :
            LET rec == run.trade_details[t]
                entry == RecEntry(rec)
                stop == RecFinalStop(rec)
                stop_distance == RAbs(RSub(entry, stop))
                target_distance == RMul(RunRR, stop_distance)
            IN  /\ rec.entry = round2(entry)
                /\ rec.sl = round2(stop)
                /\ rec.sl_distance = round2(stop_distance)
                /\ rec.tp_distance = round2(target_distance)
                /\ IF rec.signal = "BUY"
                   THEN /\ rec.tp = round2(RAdd(entry, target_distance))
                        /\ RLt(rec.entry, rec.tp)
                   ELSE /\ rec.tp = round2(RSub(entry, target_distance))
                        /\ RLt(rec.tp, rec.entry)

\* a finished run with a trade whose stop the risk cap adjusted
C14_Witness ==
    /\ pc = "done"
    /\ \E t \in 1..Len(run.trade_details) :
          LET rec == run.trade_details[t]
          IN  /\ rec.comment = "SL Adjusted"
              /\ RecFinalStop(rec) # RecProposedStop(rec)
              /\ rec.sl = round2(RecFinalStop(rec))

(***************************************************************************)
(* Claims about the rolling annual range                                   *)
(***************************************************************************)
\* a history that agrees with rows on every bar before the day d and has an
\* extreme bar in place of every bar from the start of d on
Spiked(rows, d) ==
    [i \in 1..Len(rows) |->
        IF day_of(rows[i].timestamp) < d THEN rows[i]
        ELSE [rows[i] EXCEPT !.high = @ + 1000, !.low = 0]]

\* the ranges of a history at the positions 1..t are those of the series
RangesAgree(series, other, t) ==
    \A u \in 1..t : rolling_annual_range(other, u) = series[u]

CallPosition == loc(data.rows, data.timestamp)

\* C15: the rolling annual range attributed to a timestamp T depends only on
\* the bars dated before the calendar day of T: a history that agrees with the
\* data on every bar before start-of-day(T) and spikes from day T on has the
\* same range at T and at every earlier timestamp.
C15_RangeNoLookahead ==
    (risk_manager # None /\ risk_manager[1].annual_range_series # None) =>
        RangesAgree(risk_manager[1].annual_range_series[1],
                    Spiked(data.rows, day_of(data.timestamp)), CallPosition)

\* the range at T is a number, differs from the range of the day before, and
\* the bars of day T would widen it
C15_Witness ==
    /\ call.op = "validate_risk_percentile"
    /\ RangeUsable
    /\ \E u \in 1..CallPosition :
          LET r == risk_manager[1].annual_range_series[1][u]
          IN  r.d # 0 /\ r # RangeAt[1]
    /\ \E i \in 1..Len(data.rows) :
          /\ day_of(data.rows[i].timestamp) = day_of(data.timestamp)
          /\ RLt(RangeAt[1], RInt(data.rows[i].high - data.rows[i].low))

\* the ATR and the rolling range the risk stage finds for a row of
\* risk_input_signals
RowAtr(row) == atr_value(RunRiskManager_, Some(row.timestamp), None)
RowAtrUsable(row) == RowAtr(row) # None /\ RowAtr(row)[1].d # 0 /\ RowAtr(row)[1].n > 0
RowRangeMissing(row) ==
    \/ RunRiskManager_.annual_range_series = None
    \/ RunRiskManager_.annual_range_series[1][loc(RunRiskManager_.ohlcv_data, row.timestamp)].d = 0

RowEntry(row) == RInt(data.df[loc(data.df, row.timestamp)].close)
RowProposedStop(row) ==
    calculate_sl_tp(RunRiskManager_, RowEntry(row), row.signal = BUY,
                    Some(row.timestamp), None).stop_loss[1]

RecordsAt(timestamp) ==
    {t \in 1..Len(run.trade_details) : run.trade_details[t].timestamp = timestamp}

\* C16: in the pipeline a candidate whose ATR is unavailable or non-positive is
\* rejected at the risk stage and counted as a risk rejection, a candidate with
\* a usable ATR whose rolling range is unavailable is approved with its
\* ATR-based stop unchanged, and no call of the run raises.
C16_MissingAtrRejectsMissingRangeApproves ==
    /\ Stage(pc) >= 3 => ~call.raised
    /\ Stage(pc) >= 7 =>
          /\ \A row \in RiskEvaluated :
                /\ ~RowAtrUsable(row) =>
                      /\ SignalAt(run.final_signals, row.timestamp) = None
                      /\ RecordsAt(row.timestamp) = {}
                /\ (RowAtrUsable(row) /\ RowRangeMissing(row)) =>
                      /\ SignalAt(run.final_signals, row.timestamp) = row.signal
                      /\ \E t \in RecordsAt(row.timestamp) :
                            run.trade_details[t].sl = round2(RowProposedStop(row))
          /\ run.risk_rejected_count.buy + run.risk_rejected_count.sell
                = Cardinality({row \in RiskEvaluated :
                                  SignalAt(run.final_signals, row.timestamp) = None})
          /\ run.risk_adjusted_count.buy + run.risk_adjusted_count.sell
                <= Cardinality({row \in RiskEvaluated : ~RowRangeMissing(row)})

\* a finished run with risk capping enabled where a candidate without a rolling
\* range (less than RollMinPeriods days of history) was approved
C16_Witness ==
    /\ pc = "done"
    /\ data.config.trade_management.risk_management.enabled
    /\ \E row \in RiskEvaluated :
          /\ RowAtrUsable(row)
          /\ RunRiskManager_.annual_range_series # None
          /\ RowRangeMissing(row)
          /\ RecordsAt(row.timestamp) # {}

Total(count) == count.buy + count.sell

\* the bars where a column has a signal and the next column has none
Dropped(before, after, sig) ==
    Cardinality({i \in RunBars : before[i] = sig /\ after[i] = None})

\* the rows of risk_input_signals of one direction: the survivors of the RSI stage
RiskInput(sig) ==
    Cardinality({k \in 1..Len(run.risk_input_signals) : run.risk_input_signals[k].signal = sig})

RecordsOf(sig) ==
    Cardinality({t \in 1..Len(run.trade_details) : Some(run.trade_details[t].signal) = sig})

\* C17: at the end of a run the counts are conserved per direction and in total:
\* the rejections reported for the time and RSI stages are the signals those
\* stages removed, the input of the risk stage is approved + rejected, raw_total
\* = time_rejected + rsi_rejected + risk_rejected + risk_approved, risk_adjusted
\* <= risk_approved, and the number of trade records is risk_approved_total and
\* the number of signals left in final_signals.
C17_CountsConserved ==
    pc = "done" =>
        /\ run.raw_buy_count = count_of(run.raw_signals, BUY)
        /\ run.raw_sell_count = count_of(run.raw_signals, SELL)
        /\ time_rejected(run).buy = Dropped(run.raw_signals, run.time_filtered_signals, BUY)
        /\ time_rejected(run).sell = Dropped(run.raw_signals, run.time_filtered_signals, SELL)
        /\ run.final_buy_count = RiskInput(BUY)
        /\ run.final_sell_count = RiskInput(SELL)
        /\ rsi_rejected(run).buy = run.time_filtered_buy - RiskInput(BUY)
        /\ rsi_rejected(run).buy >= 0 /\ rsi_rejected(run).sell >= 0
        /\ run.final_buy_count = run.risk_approved_count.buy + run.risk_rejected_count.buy
        /\ run.final_sell_count = run.risk_approved_count.sell + run.risk_rejected_count.sell
        /\ run.raw_buy_count = time_rejected(run).buy + rsi_rejected(run).buy
                                 + run.risk_rejected_count.buy + run.risk_approved_count.buy
        /\ run.raw_sell_count = time_rejected(run).sell + rsi_rejected(run).sell
                                  + run.risk_rejected_count.sell + run.risk_approved_count.sell
        /\ run.raw_buy_count + run.raw_sell_count
              = Total(time_rejected(run)) + Total(rsi_rejected(run))
                + Total(run.risk_rejected_count) + Total(run.risk_approved_count)
        /\ run.risk_adjusted_count.buy <= run.risk_approved_count.buy
        /\ run.risk_adjusted_count.sell <= run.risk_approved_count.sell
        /\ RecordsOf(BUY) = run.risk_approved_count.buy
        /\ RecordsOf(SELL) = run.risk_approved_count.sell
        /\ Len(run.trade_details) = Total(run.risk_approved_count)
        /\ Len(run.trade_details) = count_of(run.final_signals, BUY) + count_of(run.final_signals, SELL)

\* a finished run where the risk stage approved one candidate and rejected another
C17_Witness ==
    /\ pc = "done"
    /\ Total(run.risk_approved_count) >= 1
    /\ Total(run.risk_rejected_count) >= 1
    /\ run.raw_buy_count + run.raw_sell_count = 2

(***************************************************************************)
(* Claims about the higher-timeframe flags                                 *)
(***************************************************************************)
\* the buckets of the table and the rows of a bucket, in index order
BucketOf(i) == htf_bucket(SignalsTable[i].timestamp, trigger.htf_period)
Buckets == {BucketOf(i) : i \in 1..Len(SignalsTable)}
BucketRows(b) == {i \in 1..Len(SignalsTable) : BucketOf(i) = b}
FirstOf(b) == CHOOSE i \in BucketRows(b) :
                  \A j \in BucketRows(b) : SignalsTable[i].timestamp <= SignalsTable[j].timestamp
LastOf(b) == CHOOSE i \in BucketRows(b) :
                 \A j \in BucketRows(b) : SignalsTable[i].timestamp >= SignalsTable[j].timestamp
BucketOpen(b) == SignalsTable[FirstOf(b)].open
BucketClose(b) == SignalsTable[LastOf(b)].close

\* C18: for every higher-timeframe bucket, with open = the open of its first
\* bar and close = the close of its last bar, the flags of its bars are Bullish
\* iff close > open, Bearish iff close < open, both false when close = open;
\* htf_bull and htf_bear are never both true.
C18_HtfFlagsFromBucket ==
    (call.op = "calculate_signals" /\ ~call.raised) =>
        \A b \in Buckets : \A i \in BucketRows(b) :
            /\ SignalsTable[i].htf_bull <=> (BucketClose(b) > BucketOpen(b))
            /\ SignalsTable[i].htf_bear <=> (BucketClose(b) < BucketOpen(b))
            /\ (BucketClose(b) = BucketOpen(b)) =>
                  (~SignalsTable[i].htf_bull /\ ~SignalsTable[i].htf_bear)
            /\ ~(SignalsTable[i].htf_bull /\ SignalsTable[i].htf_bear)

\* a table with a bullish bucket of two bars next to a neutral bucket
C18_Witness ==
    /\ call.op = "calculate_signals" /\ ~call.raised
    /\ \E b \in Buckets :
          /\ Cardinality(BucketRows(b)) = 2
          /\ \A i \in BucketRows(b) : SignalsTable[i].htf_bull
    /\ \E i \in 1..Len(SignalsTable) :
          /\ BucketClose(BucketOf(i)) = BucketOpen(BucketOf(i))
          /\ ~SignalsTable[i].htf_bull /\ ~SignalsTable[i].htf_bear

\* the most recent bucket that starts at or before the bar i
BucketsBefore(i) == {b \in Buckets : b <= SignalsTable[i].timestamp}

\* C19: each base bar has the flags of the most recent bucket of the resampled
\* table that starts at or before the bar's timestamp; such a bucket exists for
\* every bar of the frame, so no bar is left with the false/false of a bar that
\* precedes the first bucket.
C19_HtfFlagsCarriedForward ==
    (call.op = "calculate_signals" /\ ~call.raised) =>
        \A i \in 1..Len(SignalsTable) :
            /\ BucketsBefore(i) # {}
            /\ LET b == Max(BucketsBefore(i))
               IN  /\ SignalsTable[i].htf_bull = (BucketClose(b) > BucketOpen(b))
                   /\ SignalsTable[i].htf_bear = (BucketClose(b) < BucketOpen(b))

\* a bar that is not the first of its bucket, falls itself, carries the bullish
\* flag of its bucket, and is followed by a bucket that is not bullish
C19_Witness ==
    /\ call.op = "calculate_signals" /\ ~call.raised
    /\ \E i \in 1..Len(SignalsTable) :
          /\ SignalsTable[i].timestamp > BucketOf(i)
          /\ SignalsTable[i].htf_bull
          /\ \E j \in 1..Len(SignalsTable) : BucketOf(j) > BucketOf(i) /\ ~SignalsTable[j].htf_bull

(***************************************************************************)
(* Claim about the RSI of a series without losses                          *)
(***************************************************************************)
StrictlyRising(series) == \A t \in 2..Len(series) : series[t] > series[t-1]
AvgLoss == ewm_mean(rsi_loss(data.closes), rsi_filter[1].length)

\* C20: wherever the smoothed average loss is exactly zero the RSI is 100; on a
\* strictly rising close series of at least `length` bars the RSI from position
\* `length` on exceeds an overbought threshold below 100 and the filter rejects
\* a Buy candidate there.
C20_ZeroLossRsiIs100 ==
    (call.op = "apply_filter" /\ rsi_filter[1].enabled) =>
        /\ \A t \in rsi_filter[1].length..Len(data.closes) :
              (AvgLoss[t].n = 0) => REq(RsiColumn[t], RInt(100))
        /\ (/\ StrictlyRising(data.closes)
            /\ Len(data.closes) >= rsi_filter[1].length
            /\ rsi_filter[1].overbought < 100
            /\ data.is_long) =>
              \A t \in rsi_filter[1].length..Len(data.closes) :
                  /\ RLt(RInt(rsi_filter[1].overbought), RsiColumn[t])
                  /\ ~call.ret[1][t]

\* a Buy filter with overbought 70 applied to a strictly rising series that is
\* longer than `length`, rejecting the final bars
C20_Witness ==
    /\ call.op = "apply_filter"
    /\ rsi_filter[1].enabled /\ data.is_long
    /\ rsi_filter[1].overbought = 70
    /\ StrictlyRising(data.closes)
    /\ Len(data.closes) > rsi_filter[1].length
    /\ \A t \in rsi_filter[1].length..Len(data.closes) : ~call.ret[1][t]

(***************************************************************************)
(* Claim about the range of the RSI                                        *)
(***************************************************************************)
StrictlyFalling(series) == \A t \in 2..Len(series) : series[t] < series[t-1]

MaxSignals == 3     \* the signals frame has 0..MaxSignals rows
MaxPasses == 2      \* the caller filters its frame up to MaxPasses times

FilterTimes == {8 * MinutesPerHour + 29, 8 * MinutesPerHour + 30,
                20 * MinutesPerHour + 30,
                MinutesPerDay + 20 * MinutesPerHour + 29}
FilterRows == [timestamp : FilterTimes, signal : {"BUY", "SELL"}]
FilterConfigs ==
    {[time_filter |-> None],
     [time_filter |-> Some([enabled |-> FALSE,
                            session_start |-> [hour |-> 9, minute |-> 0],
                            session_end |-> [hour |-> 20, minute |-> 30]])],
     [time_filter |-> Some([enabled |-> TRUE,
                            session_start |-> [hour |-> 8, minute |-> 30],
                            session_end |-> [hour |-> 20, minute |-> 30]])],
     [time_filter |-> Some([enabled |-> TRUE,
                            session_start |-> [hour |-> 20, minute |-> 30],
                            session_end |-> [hour |-> 8, minute |-> 30]])]}

\* signals_df is the frame the caller starts with, df the frame it holds now
InitFilter ==
    /\ pc = "time"
    /\ \E n \in 0..MaxSignals :
          \E rows \in [1..n -> FilterRows], config \in FilterConfigs :
              data = [config |-> config, signals_df |-> rows, df |-> rows, passes |-> 0]
    /\ call = Idle
    /\ time_manager = None
    /\ trigger = None /\ rsi_filter = None /\ risk_manager = None /\ run = None

\* df = time_manager.filter_signals_by_time(df); the info line of 109-110 is
\* logged when rows were removed
FilterSignalsByTime ==
    /\ pc = "time"
    /\ time_manager # None
    /\ data.passes < MaxPasses
    /\ LET out == filter_signals_by_time(time_manager[1], data.df)
       IN  /\ call' = Call("filter_signals_by_time", FALSE, Some(out),
                           IF Len(out) < Len(data.df) THEN <<"info">> ELSE <<>>)
           /\ data' = [data EXCEPT !.df = out, !.passes = data.passes + 1]
    /\ UNCHANGED <<pc, time_manager, trigger, rsi_filter, risk_manager, run>>

NextFilter == ConstructTimeManager \/ FilterSignalsByTime

SpecFilter == InitFilter /\ [][NextFilter]_vars

\* positions of the caller's first frame that are in trading hours, and the
\* k-th of them
KeptRows ==
    {i \in 1..Len(data.signals_df) :
        is_in_trading_hours(time_manager[1], data.signals_df[i].timestamp)}
NthKept(k) == CHOOSE i \in KeptRows : Cardinality({j \in KeptRows : j <= i}) = k

\* C22: the output of filter_signals_by_time holds exactly the input rows whose
\* timestamp is in trading hours, in their order and unchanged, and filtering
\* that output again returns the same rows.
C22_TimeFilterSelectiveIdempotent ==
    (call.op = "filter_signals_by_time") =>
        /\ ~call.raised
        /\ Len(call.ret[1]) = Cardinality(KeptRows)
        /\ \A k \in 1..Len(call.ret[1]) : call.ret[1][k] = data.signals_df[NthKept(k)]
        /\ data.df = call.ret[1]

\* the second pass over a frame from which the first pass removed some rows and
\* kept others
C22_Witness ==
    /\ call.op = "filter_signals_by_time"
    /\ data.passes = 2
    /\ Len(data.df) > 0
    /\ Len(data.df) < Len(data.signals_df)

(***************************************************************************)
(* Claims about the input checks and the accessors of the trigger          *)
(***************************************************************************)
Chronological(rows) ==
    \A i \in 1..Len(rows) : \A j \in 1..Len(rows) :
        (i < j) => rows[i].timestamp < rows[j].timestamp

HasMissingValues(rows) ==
    \E i \in 1..Len(rows) :
        isna(rows[i].open) \/ isna(rows[i].high) \/ isna(rows[i].low) \/ isna(rows[i].close)

\* the four defects of the input bars
MissingColumn == ~(required_cols \subseteq data.columns)
NotTimeIndexed == data.index_type # "DatetimeIndex"
NonChronological == ~Chronological(data.rows)
DefectiveInput ==
    MissingColumn \/ NotTimeIndexed \/ HasMissingValues(data.rows) \/ NonChronological

\* C23: when the input bars lack a required column, are not indexed by
\* timestamps, hold missing values or have a non-chronological index,
\* calculate_signals raises and neither a signals table nor execution
\* statistics are stored.
C23_DefectiveInputAborts ==
    (trigger.execution_time # None /\ DefectiveInput) =>
        /\ (call.op = "calculate_signals") => call.raised
        /\ trigger.signals_df = None
        /\ trigger.execution_stats = None

\* C24: in every stored signals table the first bar is Unclassified, and
\* neither the first nor the second bar carries a reversal or a Buy or Sell
\* signal.
C24_NoSignalOnFirstTwoBars ==
    /\ (Len(SignalsTable) >= 1) => isna(SignalsTable[1].candle_type)
    /\ \A i \in 1..Min({2, Len(SignalsTable)}) :
          /\ ~SignalsTable[i].rev_2d_2u /\ ~SignalsTable[i].rev_2u_2d
          /\ ~SignalsTable[i].we_buy /\ ~SignalsTable[i].we_sell

\* a table whose second bar is directional and whose third bar is the first
\* to carry a signal
C24_Witness ==
    /\ call.op = "calculate_signals" /\ ~call.raised
    /\ Len(SignalsTable) >= 3
    /\ SignalsTable[2].candle_type \in {DirectionalUp, DirectionalDown}
    /\ (SignalsTable[3].we_buy \/ SignalsTable[3].we_sell)

\* the outcome of the accessor called in the next state
GetSignalsFails == call'.op = "get_signals" /\ call'.raised
GetStatsFails == call'.op = "get_execution_stats" /\ call'.raised
AccessorCalled == call'.op \in {"get_signals", "get_execution_stats"}
NoRunYet == trigger.execution_time = None
RunFailed == call.op = "calculate_signals" /\ call.raised
RunSucceeded == call.op = "calculate_signals" /\ ~call.raised

\* C25: get_signals and get_execution_stats raise when called before any
\* calculate_signals or right after a calculate_signals that raised (the frame
\* is the same in every run, so no run has succeeded then); right after a
\* successful calculate_signals they return the stored table and the stored
\* statistics, whose total is buy + sell.
C25_AccessorsFollowLastRun ==
    [][AccessorCalled =>
          /\ (NoRunYet \/ RunFailed) => (GetSignalsFails \/ GetStatsFails)
          /\ RunSucceeded =>
                /\ ~call'.raised
                /\ (call'.op = "get_signals") => call'.ret = call.ret
                /\ (call'.op = "get_execution_stats") =>
                      /\ call'.ret[1].total = call'.ret[1].buy + call'.ret[1].sell
                      /\ call'.ret[1].buy = count_buy(call.ret[1])
                      /\ call'.ret[1].sell = count_sell(call.ret[1])]_vars

(***************************************************************************)
(* Claim about the bars of one higher-timeframe bucket                     *)
(***************************************************************************)
\* the input bars with the close of bar j replaced
WithClose(rows, j, c) == [rows EXCEPT ![j].close = c]

\* the signals table of the input with the close of the last bar of the bucket
\* of bar i replaced by c
TableWithLastClose(i, c) ==
    signals_table(WithClose(data.rows, LastOf(BucketOf(i)), c), trigger.htf_period)

\* C26: bars of the same bucket carry the same htf_bull / htf_bear, and on a bar
\* that is not the last of its bucket these flags, and with them the Buy and
\* Sell signal, follow the close of the bucket's last bar: whatever close that
\* later bar is given, the earlier bar is bullish iff that close is above the
\* open of the bucket's first bar and bearish iff it is below.
C26_EarlyBarFollowsLaterClose ==
    (call.op = "calculate_signals" /\ ~call.raised) =>
        /\ \A i, j \in 1..Len(SignalsTable) :
              (BucketOf(i) = BucketOf(j)) =>
                  /\ SignalsTable[i].htf_bull = SignalsTable[j].htf_bull
                  /\ SignalsTable[i].htf_bear = SignalsTable[j].htf_bear
        /\ \A i \in 1..Len(SignalsTable) : \A c \in 1..MaxPrice :
              (LastOf(BucketOf(i)) # i) =>
                  LET row == TableWithLastClose(i, c)[i]
                      o == BucketOpen(BucketOf(i))
                  IN  /\ row.htf_bull = (c > o)
                      /\ row.htf_bear = (c < o)
                      /\ row.we_buy = (SignalsTable[i].rev_2d_2u /\ c > o)
                      /\ row.we_sell = (SignalsTable[i].rev_2u_2d /\ c < o)

\* a bullish reversal on the first bar of a bucket, a bar that rose itself,
\* without a Buy: the bar after it closed at or below the open of the bucket
C26_Witness ==
    /\ call.op = "calculate_signals" /\ ~call.raised
    /\ Chronological(data.rows)
    /\ \E i \in 1..Len(SignalsTable) :
          /\ LastOf(BucketOf(i)) # i
          /\ SignalsTable[i].rev_2d_2u
          /\ SignalsTable[i].close > SignalsTable[i].open
          /\ ~SignalsTable[i].we_buy

(***************************************************************************)
(* Claim about the RSI warm-up                                             *)
(***************************************************************************)
\* positions of the frame before `length` observations are available
WarmUp == {t \in 1..Len(data.closes) : t < rsi_filter[1].length}

\* C27: with the filter enabled, on every bar of the warm-up the RSI is 100, so
\* a Buy candidate is vetoed whenever overbought <= 100 and a Sell candidate is
\* allowed whenever oversold < 100.
C27_WarmUpRsiIs100 ==
    (call.op = "apply_filter" /\ rsi_filter[1].enabled) =>
        \A t \in WarmUp :
            /\ REq(RsiColumn[t], RInt(100))
            /\ (data.is_long /\ rsi_filter[1].overbought <= 100) => ~call.ret[1][t]
            /\ (~data.is_long /\ rsi_filter[1].oversold < 100) => call.ret[1][t]

\* a Buy filter with overbought 70 over a falling series that ends inside the
\* warm-up: every bar is vetoed
C27_Witness ==
    /\ call.op = "apply_filter" /\ rsi_filter[1].enabled
    /\ data.is_long /\ rsi_filter[1].overbought = 70
    /\ rsi_filter[1].length = 3 /\ Len(data.closes) = 2
    /\ StrictlyFalling(data.closes)
    /\ \A t \in 1..2 : ~call.ret[1][t]

\* C28: with max_risk_percentile >= 1.0, the value an absent key reads as
\* included, validate_risk_percentile approves every stop unchanged whatever the
\* risk fraction is; its comment is neither the one of an adjusted nor the one
\* of a rejected stop.
C28_LimitOfOneOrMoreNeverCaps ==
    (/\ call.op = "validate_risk_percentile"
     /\ RLe(RInt(1), RiskCfg.max_risk_percentile)) =>
        /\ Validated.is_valid
        /\ Validated.stop_loss = Some(data.stop_loss)
        /\ Validated.comment \notin {"SL Adjusted", "Risk Rejected"}

\* a stop 3000 points away on a range of 2000, limit left at its default and
\* allow_exceed_limit off: the risk fraction 1.5 is over the limit, the stop
\* is approved as it is
C28_Witness ==
    /\ call.op = "validate_risk_percentile"
    /\ RiskCfg.enabled /\ RangeUsable /\ ~RiskCfg.allow_exceed_limit
    /\ RiskCfg.max_risk_percentile = DefaultMaxRiskPercentile
    /\ RangeAt[1] = RInt(2000) /\ RiskDistance = RInt(3000)
    /\ RLt(LimitDistance, RiskDistance)
    /\ Validated.is_valid /\ Validated.stop_loss = Some(data.stop_loss)

(***************************************************************************)
(* Claim about a session that does not start before it ends                *)
(***************************************************************************)
InvertedRun ==
    /\ time_manager # None
    /\ time_manager[1].enabled
    /\ time_manager[1].session_start_minutes >= time_manager[1].session_end_minutes

\* C29: a TimeManager built enabled with start_minutes >= end_minutes is
\* constructed without an error, its is_in_trading_hours is false for every
\* timestamp, the time filter leaves no signal and the run approves no trade.
C29_InvertedSessionTradesNothing ==
    InvertedRun =>
        /\ ~call.raised
        /\ \A ts \in QueryTimes \cup {RunIndex[i] : i \in 1..Len(RunIndex)} :
              ~is_in_trading_hours(time_manager[1], ts)
        /\ \A i \in 1..Len(run.time_filtered_signals) : run.time_filtered_signals[i] = None
        /\ run.time_filtered_buy = 0 /\ run.time_filtered_sell = 0
        /\ Total(run.risk_approved_count) = 0
        /\ run.trade_details = <<>>

\* a finished run with the inverted session whose trigger fired at 08:29, a
\* time between the end and the start written in the configuration
C29_Witness ==
    /\ pc = "done"
    /\ InvertedRun
    /\ run.raw_signals[3] # None
    /\ run.trade_details = <<>>

(***************************************************************************)
(* download_raw_ticks.py: the hourly files fetched by a pool of workers     *)
(***************************************************************************)
MaxHours == 3       \* the date range spans up to MaxHours hourly files
MaxWorkers == 2     \* max_workers of the pool is 1 or MaxWorkers

\* get_local_filepath keyed by the day only
get_local_filepath_per_day(dt) == [day |-> day_of(dt), hour |-> 0]

\* get_local_filepath: base_dir/INSTRUMENT/year/month/day/HHh_ticks.bi5, for one
\* instrument and base_dir; year, month and day are the calendar day of dt
get_local_filepath(dt) == [day |-> day_of(dt), hour |-> hour_of(dt)]

\* replace(minute=0, second=0, microsecond=0)
hour_aligned(dt) == (dt \div MinutesPerHour) * MinutesPerHour

\* the while loop of lines 95-99
RECURSIVE hours_from(_, _, _)
hours_from(current_dt, end, acc) ==
    IF current_dt <= end
    THEN hours_from(current_dt + MinutesPerHour, end, Append(acc, current_dt))
    ELSE acc

hours_to_download(start_date, end_date) ==
    hours_from(hour_aligned(start_date), hour_aligned(end_date), <<>>)

\* what a local file holds: nothing (size 0), what an earlier run saved, what
\* this run fetched; None when the path does not exist
NoContent == "empty"
OldContent == "old"
NewContent == "new"

\* os.path.exists(local_path) and os.path.getsize(local_path) > 0
exists_nonempty(fs, path) == fs[path] # None /\ fs[path] # Some(NoContent)

\* outcomes of session.get + raise_for_status
Responses == {"ok", "404", "network_error"}

\* the range starts at 22:30 of day 0 and ends up to MaxHours hours later, or
\* before it starts
DownloadStart == 22 * MinutesPerHour + 30
DownloadEnds == {DownloadStart - MinutesPerHour + k * MinutesPerHour + 15 : k \in 0..MaxHours}

PathsOf(hours) == {get_local_filepath(hours[i]) : i \in 1..Len(hours)}

InitDownload ==
    /\ pc = "download"
    /\ \E end_date \in DownloadEnds, max_workers \in {1, MaxWorkers} :
          \E files \in [PathsOf(hours_to_download(DownloadStart, end_date)) ->
                            {None, Some(NoContent), Some(OldContent)}] :
              data = [start_date |-> DownloadStart, end_date |-> end_date,
                      max_workers |-> max_workers, files |-> files]
    /\ run = None
    /\ call = Idle
    /\ trigger = None /\ time_manager = None /\ rsi_filter = None /\ risk_manager = None

\* lines 87-110: the list of hours, one future per hour, all waiting at first
SubmitHours ==
    /\ pc = "download"
    /\ LET hours == hours_to_download(data.start_date, data.end_date)
       IN  run' = Some([hours_to_download |-> hours,
                        task |-> [i \in 1..Len(hours) |-> "queued"],
                        result |-> [i \in 1..Len(hours) |-> None],
                        fs |-> data.files,
                        fetched |-> [i \in 1..Len(hours) |-> 0],
                        opened |-> {},
                        count |-> 0])
    /\ pc' = "pool"
    /\ call' = Call("submit", FALSE, None, <<>>)
    /\ UNCHANGED <<data, trigger, time_manager, rsi_filter, risk_manager>>

Tasks == IF run = None THEN {} ELSE 1..Len(run[1].hours_to_download)
Running == {i \in Tasks : run[1].task[i] \in {"get", "open", "write"}}
PathOfTask(i) == get_local_filepath(run[1].hours_to_download[i])

\* a free thread of the pool takes the oldest waiting future; lines 53-58
WorkerCheck(i) ==
    /\ pc = "pool"
    /\ run[1].task[i] = "queued"
    /\ \A j \in Tasks : (j < i) => run[1].task[j] # "queued"
    /\ Cardinality(Running) < data.max_workers
    /\ IF exists_nonempty(run[1].fs, PathOfTask(i))
       THEN run' = Some([run[1] EXCEPT !.task[i] = "done", !.result[i] = Some("Exists")])
       ELSE run' = Some([run[1] EXCEPT !.task[i] = "get"])
    /\ call' = Call("download_single_hour", FALSE, None, <<>>)
    /\ UNCHANGED <<pc, data, trigger, time_manager, rsi_filter, risk_manager>>

\* lines 61-62 and the handlers of 73-81
WorkerGet(i) ==
    /\ pc = "pool"
    /\ run[1].task[i] = "get"
    /\ \E response \in Responses :
          run' = Some([run[1] EXCEPT
                    !.fetched[i] = @ + 1,
                    !.task[i] = IF response = "ok" THEN "open" ELSE "done",
                    !.result[i] = IF response = "ok" THEN None
                                  ELSE IF response = "404" THEN Some("Missing (404)")
                                  ELSE Some("Network Error")])
    /\ call' = Call("session.get", FALSE, None, <<>>)
    /\ UNCHANGED <<pc, data, trigger, time_manager, rsi_filter, risk_manager>>

\* lines 65-68: makedirs and open(local_path, 'wb'), which truncates the file
WorkerOpen(i) ==
    /\ pc = "pool"
    /\ run[1].task[i] = "open"
    /\ run' = Some([run[1] EXCEPT
              !.fs[PathOfTask(i)] = Some(NoContent),
              !.opened = @ \cup {[task |-> i, path |-> PathOfTask(i)]},
              !.task[i] = "write"])
    /\ call' = Call("open", FALSE, None, <<>>)
    /\ UNCHANGED <<pc, data, trigger, time_manager, rsi_filter, risk_manager>>

\* lines 69-71: f.write(response.content)
WorkerWrite(i) ==
    /\ pc = "pool"
    /\ run[1].task[i] = "write"
    /\ run' = Some([run[1] EXCEPT
              !.fs[PathOfTask(i)] = Some(NewContent),
              !.task[i] = "done",
              !.result[i] = Some("Downloaded")])
    /\ call' = Call("write", FALSE, None, <<>>)
    /\ UNCHANGED <<pc, data, trigger, time_manager, rsi_filter, risk_manager>>

\* one turn of the as_completed loop, lines 113-121
CollectResult ==
    /\ pc = "pool"
    /\ run[1].count < Cardinality({i \in Tasks : run[1].task[i] = "done"})
    /\ run' = Some([run[1] EXCEPT !.count = @ + 1])
    /\ call' = Call("future.result", FALSE, None, <<>>)
    /\ UNCHANGED <<pc, data, trigger, time_manager, rsi_filter, risk_manager>>

\* the loop has seen every future; line 123
DownloadComplete ==
    /\ pc = "pool"
    /\ run[1].count = Cardinality(Tasks)
    /\ pc' = "complete"
    /\ call' = Call("download_and_save_bi5_files", FALSE, None, <<>>)
    /\ UNCHANGED <<data, run, trigger, time_manager, rsi_filter, risk_manager>>

NextDownload ==
    \/ SubmitHours
    \/ \E i \in Tasks : WorkerCheck(i)
    \/ \E i \in Tasks : WorkerGet(i)
    \/ \E i \in Tasks : WorkerOpen(i)
    \/ \E i \in Tasks : WorkerWrite(i)
    \/ CollectResult
    \/ DownloadComplete

SpecDownload == InitDownload /\ [][NextDownload]_vars

\* the hourly datetimes from the aligned start to the aligned end, inclusive
ExpectedHours ==
    LET first == (data.start_date \div MinutesPerHour) * MinutesPerHour
        last == (data.end_date \div MinutesPerHour) * MinutesPerHour
    IN  IF first > last THEN {}
        ELSE {first + k * MinutesPerHour : k \in 0..((last - first) \div MinutesPerHour)}

Submitted == run[1].hours_to_download

\* the file of the hour of a task: its calendar day and its hour of the day
OwnFile(i) ==
    [day |-> Submitted[i] \div MinutesPerDay,
     hour |-> (Submitted[i] % MinutesPerDay) \div MinutesPerHour]

\* the hour had a file of non-zero size before the run
HadFile(i) ==
    /\ data.files[PathOfTask(i)] # None
    /\ data.files[PathOfTask(i)] # Some(NoContent)

\* C30: every hour from start to end inclusive is submitted exactly once; a
\* worker opens only the file of its own hour and no two workers open the same
\* path, so a downloaded file holds what its own worker wrote; an hour whose
\* file existed with non-zero size is never fetched and its file is left as it
\* was; while futures are outstanding some step of the pool can be taken
\* whatever the other downloads returned, and at the end every future is done.
C30_WorkersKeepToTheirOwnFile ==
    (run # None) =>
        /\ {Submitted[i] : i \in Tasks} = ExpectedHours
        /\ Len(Submitted) = Cardinality(ExpectedHours)
        /\ \A i \in Tasks : PathOfTask(i) = OwnFile(i)
        /\ \A o \in run[1].opened : o.path = OwnFile(o.task)
        /\ \A o1, o2 \in run[1].opened : (o1.path = o2.path) => (o1.task = o2.task)
        /\ \A i \in Tasks :
              /\ run[1].fetched[i] <= 1
              /\ HadFile(i) =>
                    /\ run[1].fetched[i] = 0
                    /\ run[1].fs[PathOfTask(i)] = data.files[PathOfTask(i)]
                    /\ \A o \in run[1].opened : o.task # i
                    /\ run[1].task[i] = "done" => run[1].result[i] = Some("Exists")
              /\ (run[1].result[i] = Some("Downloaded")) =>
                    run[1].fs[PathOfTask(i)] = Some(NewContent)
        /\ (pc = "pool") => ENABLED NextDownload
        /\ (pc = "complete") => \A i \in Tasks : run[1].task[i] = "done"

\* a finished run of three hours on two workers: one download failed, one hour
\* was saved, one hour was kept from an earlier run
C30_Witness ==
    /\ pc = "complete"
    /\ data.max_workers = 2
    /\ Cardinality(Tasks) = 3
    /\ \E i, j, k \in Tasks :
          /\ run[1].result[i] = Some("Network Error")
          /\ run[1].result[j] = Some("Downloaded")
          /\ run[1].fs[PathOfTask(j)] = Some(NewContent)
          /\ run[1].result[k] = Some("Exists")
          /\ run[1].fs[PathOfTask(k)] = Some(OldContent)

====
